---- MODULE Spec2Model ----
(***************************************************************************)
(* A model of the mail server of geoffreyhinton/web_mail_go: the MongoDB   *)
(* collections shared by all front ends (users, addresses, mailboxes,      *)
(* messages), the LMTP delivery session (lmtp package) and the IMAP        *)
(* session (imap_core package).  Every store call of the code is one       *)
(* atomic step; a handler that makes several store calls is a sequence of  *)
(* steps, so that the calls of concurrent sessions interleave as they do   *)
(* against the real store.                                                 *)
(***************************************************************************)
EXTENDS Integers, Sequences, FiniteSets, TLC

(***************************************************************************)
(* Bounds of the model.                                                    *)
(***************************************************************************)
\* placements of a message into a mailbox by a delivery, a COPY or a MOVE
MaxPlacements == 3
\* recipients accepted in one LMTP transaction
MaxRcpt == 2
\* store and transport errors injected in one run
MaxFaults == 1
\* mailboxes created by CREATE
MaxCreates == 2

(***************************************************************************)
(* State.                                                                  *)
(***************************************************************************)
VARIABLES
    users,       \* collection "users":     user id -> document
    mailboxes,   \* collection "mailboxes": mailbox id -> document
    messages,    \* collection "messages":  message id -> document
    nextMsgId,   \* next fresh ObjectID of a message document
    insCount,    \* history: number of placements of a message into a mailbox
    placed,      \* history: the stored messages in the order of their placement
    faults,      \* history: number of errors injected so far
    lmtp,        \* LMTP sessions: session id -> Session and its position
    imap,        \* IMAP sessions: session id -> Session and its position
    server,      \* the IMAP server: its listener, its quit channel, Shutdown
    indexer      \* the MIME libraries: a parsed message and what was built from it

vars == <<users, mailboxes, messages, nextMsgId, insCount, placed, faults, lmtp, imap,
         server, indexer>>
storeVars == <<users, mailboxes, messages, nextMsgId, insCount, placed>>

\* no message has been handed to the MIME libraries
NoIndexer == [pc |-> "unused"]

LmtpIds == {"l1", "l2"}
ImapIds == {"i1", "i2"}

(***************************************************************************)
(* The store as the administrative API leaves it: two users, each with the *)
(* default mailboxes of createDefaultMailboxes.                            *)
(***************************************************************************)
UserIds == {"u1", "u2"}

DefaultMailboxes ==
    << [Path |-> "INBOX",  SpecialUse |-> "\\Inbox"],
       [Path |-> "Sent",   SpecialUse |-> "\\Sent"],
       [Path |-> "Drafts", SpecialUse |-> "\\Drafts"],
       [Path |-> "Trash",  SpecialUse |-> "\\Trash"],
       [Path |-> "Junk",   SpecialUse |-> "\\Junk"] >>

NDefault == Len(DefaultMailboxes)

\* mailbox ids 1..5 belong to u1, 6..10 to u2; u2 has since deleted Junk
\* through the API (DeleteMailbox protects INBOX only)
DefaultMailboxDocs ==
    [id \in 1..(2 * NDefault) |->
        LET k == ((id - 1) % NDefault) + 1
        IN  [user        |-> IF id <= NDefault THEN "u1" ELSE "u2",
             path        |-> DefaultMailboxes[k].Path,
             specialUse  |-> DefaultMailboxes[k].SpecialUse,
             modifyIndex |-> 1,
             uidNext     |-> 1,
             uidValidity |-> 1]]

InitMailboxes == [id \in 1..(2 * NDefault - 1) |-> DefaultMailboxDocs[id]]

InitUsers ==
    [u \in UserIds |-> [username |-> u, password |-> "pw", disabled |-> FALSE,
                        storageUsed |-> 0]]

\* collection "addresses": address string (lower case, no tag) and owner
addresses ==
    { [address |-> [local |-> "a1", tag |-> "", upper |-> FALSE], user |-> "u1"],
      [address |-> [local |-> "a2", tag |-> "", upper |-> FALSE], user |-> "u2"] }

NoBox == [id |-> 0]

(***************************************************************************)
(* Store queries used by several handlers.                                 *)
(***************************************************************************)
\* FindOne on "mailboxes" by {user, path}: the ids that match
MailboxByPath(user, path) ==
    {id \in DOMAIN mailboxes : mailboxes[id].user = user /\ mailboxes[id].path = path}

\* FindOne on "mailboxes" by {user, specialUse}
MailboxBySpecialUse(user, use) ==
    {id \in DOMAIN mailboxes :
        mailboxes[id].user = user /\ mailboxes[id].specialUse = use}

\* the document FindOne decodes (the first match), with its id
MailboxDoc(id) ==
    [id |-> id, uidNext |-> mailboxes[id].uidNext,
     modifyIndex |-> mailboxes[id].modifyIndex,
     uidValidity |-> mailboxes[id].uidValidity, path |-> mailboxes[id].path]

MinOf(S) == CHOOSE x \in S : \A y \in S : x <= y
MaxOf(S) == CHOOSE x \in S : \A y \in S : x >= y

\* messages of a mailbox
MsgsIn(mb) == {m \in DOMAIN messages : messages[m].mailbox = mb}
UidsIn(mb) == {messages[m].uid : m \in MsgsIn(mb)}

\* the order of placement without the messages of gone, and with m placed last
PlacedWithout(order, gone) == SelectSeq(order, LAMBDA m : m \notin gone)
PlacedLast(order, m) == Append(PlacedWithout(order, {m}), m)
\* A was placed before B
PlacedBefore(a, b) ==
    \E i, j \in 1..Len(placed) : i < j /\ placed[i] = a /\ placed[j] = b

\* an injected error is counted; the others leave the count alone
Fault(err) == faults' = IF err THEN faults + 1 ELSE faults
MayFail == IF faults < MaxFaults THEN BOOLEAN ELSE {FALSE}

(***************************************************************************)
(* LMTP (lmtp package).                                                    *)
(***************************************************************************)
SpamHeader == "x-spam-flag"

\* messages a client may send: the header lines that matter to the filters
\* (lower-cased, as matchesFilter reads them) and the length in bytes
RawMessages ==
    { [headers |-> {},                              size |-> 2, text |-> {"hello"}],
      [headers |-> {<<"x-spam-flag", "yes">>},      size |-> 3, text |-> {"offer"}] }

\* the length of an address local[+tag]@example.com
AddressLen(addr) ==
    Len(addr.local) + (IF addr.tag = "" THEN 0 ELSE 1 + Len(addr.tag)) + Len("@example.com")

\* "Delivered-To: <recipient>\r\n" prepended by processMessage, in bytes
DeliveredToLen(recipient) == Len("Delivered-To: ") + AddressLen(recipient) + Len("\r\n")

\* strings.ToLower(strings.TrimSpace(addr))
normalizeAddress(addr) == [addr EXCEPT !.upper = FALSE]

\* an address left as it was written
removeAddressTagKeeps(addr) == addr

\* regexp `\+[^@]*@` replaced by "@"
removeAddressTag(addr) == [addr EXCEPT !.tag = ""]

\* recipients a client may name in RCPT TO
RcptInputs ==
    { [local |-> "a1",     tag |-> "",     upper |-> FALSE],
      [local |-> "a2",     tag |-> "news", upper |-> TRUE],
      [local |-> "nobody", tag |-> "",     upper |-> FALSE] }

NoFilterAction == [spam |-> FALSE, seen |-> FALSE, flag |-> FALSE,
                   delete |-> FALSE, mailbox |-> ""]
NoFilterQuery == [Headers |-> {}, HasAttachments |-> 0, Size |-> 0, Text |-> ""]

\* getUserFilters: no filters are stored per user
getUserFilters(user) == << >>

\* a spam filter that matches and does nothing
SpamFilterIdle ==
    [ID |-> "SPAM",
     Query |-> [NoFilterQuery EXCEPT !.Headers = {<<SpamHeader, "yes">>}],
     Action |-> NoFilterAction]

\* the filter processMessage appends when a spam header is configured
SpamFilter ==
    [ID |-> "SPAM",
     Query |-> [NoFilterQuery EXCEPT !.Headers = {<<SpamHeader, "yes">>}],
     Action |-> [NoFilterAction EXCEPT !.spam = TRUE]]

\* processMessage: the spam filter comes after the filters of the user
WithSpamFilter(filters) ==
    IF SpamHeader # "" THEN Append(filters, SpamFilter) ELSE filters

FiltersFor(user) == WithSpamFilter(getUserFilters(user))

\* matchesFilter; no message of RawMessages carries an attachment
matchesFilter(filter, raw, size) ==
    /\ \A h \in filter.Query.Headers : h \in raw.headers
    /\ ~(filter.Query.HasAttachments > 0)
    /\ ~(filter.Query.Size < 0 /\ size > -filter.Query.Size)
    /\ ~(filter.Query.Size > 0 /\ size < filter.Query.Size)
    /\ (filter.Query.Text # "" => filter.Query.Text \in raw.text)

\* a filter loop that notes the delete and goes on to the next filter
RECURSIVE RunFiltersOn(_, _, _, _)
RunFiltersOn(filters, raw, size, acc) ==
    IF filters = << >> THEN acc
    ELSE LET f  == Head(filters)
             a1 == IF f.Action.spam THEN [acc EXCEPT !.mailboxPath = "Junk"] ELSE acc
             a2 == IF f.Action.seen
                   THEN [a1 EXCEPT !.flags = Append(@, "\\Seen")] ELSE a1
             a3 == IF f.Action.flag
                   THEN [a2 EXCEPT !.flags = Append(@, "\\Flagged")] ELSE a2
             a4 == IF f.Action.delete THEN [a3 EXCEPT !.deleteMessage = TRUE] ELSE a3
             a5 == IF f.Action.mailbox # ""
                   THEN [a4 EXCEPT !.mailboxPath = f.Action.mailbox] ELSE a4
         IN  IF ~matchesFilter(f, raw, size) THEN RunFiltersOn(Tail(filters), raw, size, acc)
             ELSE RunFiltersOn(Tail(filters), raw, size, a5)

\* the filter loop of processMessage: actions of each matching filter in
\* order, stopping at the first delete
RECURSIVE RunFilters(_, _, _, _)
RunFilters(filters, raw, size, acc) ==
    IF filters = << >> THEN acc
    ELSE LET f  == Head(filters)
             a1 == IF f.Action.spam THEN [acc EXCEPT !.mailboxPath = "Junk"] ELSE acc
             a2 == IF f.Action.seen
                   THEN [a1 EXCEPT !.flags = Append(@, "\\Seen")] ELSE a1
             a3 == IF f.Action.flag
                   THEN [a2 EXCEPT !.flags = Append(@, "\\Flagged")] ELSE a2
             a4 == IF f.Action.mailbox # ""
                   THEN [a3 EXCEPT !.mailboxPath = f.Action.mailbox] ELSE a3
         IN  IF ~matchesFilter(f, raw, size) THEN RunFilters(Tail(filters), raw, size, acc)
             ELSE IF f.Action.delete THEN [a3 EXCEPT !.deleteMessage = TRUE]
             ELSE RunFilters(Tail(filters), raw, size, a4)

FilterStart == [mailboxPath |-> "INBOX", flags |-> << >>, deleteMessage |-> FALSE]

contains(slice, item) == \E k \in 1..Len(slice) : slice[k] = item

\* NewSession
\* no RCPT TO has been read
NoRcpt == [local |-> "", tag |-> "", upper |-> FALSE]

NewLmtpSession ==
    [pc |-> "idle", users |-> << >>, raw |-> [headers |-> {}, size |-> 0, text |-> {}],
     i |-> 1, responses |-> << >>, mailbox |-> NoBox, plan |-> FilterStart,
     stored |-> << >>, last |-> "", reply |-> << >>, to |-> NoRcpt, filters |-> << >>]

\* the locals of a finished Session.Data are gone when the next command runs
Forget(sess) ==
    [sess EXCEPT !.raw = NewLmtpSession.raw, !.i = 1, !.responses = << >>,
                 !.stored = << >>, !.plan = FilterStart, !.to = NoRcpt,
                 !.filters = << >>]

\* Session.Mail
Mail(l) ==
    /\ lmtp[l].pc = "idle"
    /\ lmtp' = [lmtp EXCEPT ![l] = [Forget(@) EXCEPT !.users = << >>, !.last = "MAIL",
                                                     !.reply = <<250>>]]
    /\ UNCHANGED <<storeVars, faults, imap, server, indexer>>

\* Session.Reset
Reset(l) ==
    /\ lmtp[l].pc = "idle"
    /\ lmtp' = [lmtp EXCEPT ![l] = [Forget(@) EXCEPT !.users = << >>, !.last = "RSET",
                                                     !.reply = <<250>>]]
    /\ UNCHANGED <<storeVars, faults, imap, server, indexer>>

\* Session.Logout, and Backend.NewSession for the next connection
NewSession(l) ==
    /\ lmtp[l].pc = "idle"
    /\ lmtp[l] # NewLmtpSession
    /\ lmtp' = [lmtp EXCEPT ![l] = NewLmtpSession]
    /\ UNCHANGED <<storeVars, faults, imap, server, indexer>>

\* the reply of Session.Rcpt and the recipient it appends, if any
RcptResult(to, dbErr) ==
    LET originalRecipient == normalizeAddress(to)
        recipient == removeAddressTag(originalRecipient)
        hit == {a \in addresses : a.address = recipient}
        address == CHOOSE a \in hit : TRUE
    IN  IF dbErr THEN [code |-> 450, add |-> << >>]
        ELSE IF hit = {} THEN [code |-> 550, add |-> << >>]
        ELSE IF address.user \notin DOMAIN users THEN [code |-> 550, add |-> << >>]
        ELSE IF users[address.user].disabled THEN [code |-> 550, add |-> << >>]
        ELSE [code |-> 250,
              add |-> << [Recipient |-> originalRecipient, User |-> address.user] >>]

\* Session.Rcpt
Rcpt(l, to, dbErr) ==
    /\ lmtp[l].pc = "idle"
    /\ lmtp[l].last \in {"MAIL", "RCPT"}
    /\ Len(lmtp[l].users) < MaxRcpt
    /\ LET r == RcptResult(to, dbErr)
       IN  lmtp' = [lmtp EXCEPT ![l] = [Forget(@) EXCEPT !.users = @ \o r.add, !.to = to,
                                            !.last = "RCPT", !.reply = <<r.code>>]]
    /\ Fault(dbErr)
    /\ UNCHANGED <<storeVars, imap, server, indexer>>

\* Session.Data, up to the loop over s.users.  The transport hands DATA to
\* the session only after at least one accepted RCPT.
DataStart(l, raw, readErr) ==
    /\ lmtp[l].pc = "idle"
    /\ lmtp[l].last = "RCPT"
    /\ Len(lmtp[l].users) >= 1
    /\ insCount + Len(lmtp[l].users) <= MaxPlacements
    /\ lmtp' = IF readErr
               THEN [lmtp EXCEPT ![l].last = "DATA", ![l].reply = <<450>>,
                                 ![l].responses = << >>, ![l].stored = << >>,
                                 ![l].to = NoRcpt]
               ELSE [lmtp EXCEPT ![l].pc = "proc", ![l].raw = raw, ![l].i = 1,
                                 ![l].responses = << >>, ![l].stored = << >>,
                                 ![l].last = "DATA", ![l].reply = << >>,
                                 ![l].to = NoRcpt]
    /\ Fault(readErr)
    /\ UNCHANGED <<storeVars, imap, server, indexer>>

\* a loop that would stop at the first recipient whose processMessage failed
NextRecipientBreak(i, n, result) == IF result = "err" THEN n + 1 ELSE i + 1

\* the loop of Session.Data: the recipient handled after recipient i of n,
\* whose processMessage returned result
NextRecipient(i, n, result) == i + 1

\* processMessage returns: Session.Data records the result and moves on
Return(sess, result, id) ==
    [sess EXCEPT !.responses = Append(@, result), !.stored = Append(@, id),
                 !.i = NextRecipient(sess.i, Len(sess.users), result),
                 !.pc = "proc", !.mailbox = NoBox]

\* the message as processMessage stores it
DeliveredSize(sess) == sess.raw.size + DeliveredToLen(sess.users[sess.i].Recipient)

\* indexer.ProcessMessage: parsing is total
ProcessMessageOk(raw) == TRUE

\* processMessage, given what getUserFilters returned: parse, filters, and
\* FindOne of the target mailbox
PMFindWith(l, userFilters, dbErr) ==
    LET filters == WithSpamFilter(userFilters)
        sess == [lmtp[l] EXCEPT !.filters = filters]
        ur   == sess.users[sess.i]
        plan == RunFilters(filters, sess.raw, DeliveredSize(sess), FilterStart)
        hits == IF plan.mailboxPath = "Junk"
                THEN MailboxBySpecialUse(ur.User, "\\Junk")
                ELSE MailboxByPath(ur.User, plan.mailboxPath)
    IN  /\ sess.pc = "proc"
        /\ sess.i <= Len(sess.users)
        /\ IF ~ProcessMessageOk(sess.raw) THEN lmtp' = [lmtp EXCEPT ![l] = Return(sess, "err", 0)]
           ELSE IF plan.deleteMessage
                THEN lmtp' = [lmtp EXCEPT ![l] = [Return(sess, "ok", 0) EXCEPT !.plan = plan]]
           ELSE IF dbErr THEN lmtp' = [lmtp EXCEPT ![l] = Return(sess, "err", 0)]
           ELSE IF hits = {}
                THEN lmtp' = [lmtp EXCEPT ![l] = [sess EXCEPT !.pc = "inbox", !.plan = plan]]
           ELSE \E id \in hits :
                  lmtp' = [lmtp EXCEPT ![l] = [sess EXCEPT !.pc = "inc", !.plan = plan,
                                                           !.mailbox = MailboxDoc(id)]]
        /\ Fault(dbErr)
        /\ UNCHANGED <<storeVars, imap, server, indexer>>

\* processMessage up to FindOne of the target mailbox
PMFind(l, dbErr) ==
    PMFindWith(l, getUserFilters(lmtp[l].users[lmtp[l].i].User), dbErr)

\* processMessage: the fallback FindOne of INBOX
PMInbox(l, dbErr) ==
    LET sess == lmtp[l]
        hits == MailboxByPath(sess.users[sess.i].User, "INBOX")
    IN  /\ sess.pc = "inbox"
        /\ IF dbErr \/ hits = {} THEN lmtp' = [lmtp EXCEPT ![l] = Return(sess, "err", 0)]
           ELSE \E id \in hits :
                  lmtp' = [lmtp EXCEPT ![l].pc = "inc", ![l].mailbox = MailboxDoc(id)]
        /\ Fault(dbErr)
        /\ UNCHANGED <<storeVars, imap, server, indexer>>

\* processMessage: UpdateOne {$inc: {uidNext: 1, modifyIndex: 1}}
PMInc(l, dbErr) ==
    LET sess == lmtp[l]
        id   == sess.mailbox.id
    IN  /\ sess.pc = "inc"
        /\ IF dbErr \/ id \notin DOMAIN mailboxes
           THEN /\ lmtp' = [lmtp EXCEPT ![l] = Return(sess, "err", 0)]
                /\ UNCHANGED mailboxes
           ELSE /\ mailboxes' = [mailboxes EXCEPT ![id].uidNext = @ + 1,
                                                  ![id].modifyIndex = @ + 1]
                /\ lmtp' = [lmtp EXCEPT ![l].pc = "insert"]
        /\ Fault(dbErr)
        /\ UNCHANGED <<users, messages, nextMsgId, insCount, placed, imap, server, indexer>>

\* the UID processMessage gives the message: the uidNext its FindOne read
DeliveryUID(sess) == sess.mailbox.uidNext

\* the document processMessage inserts (models.Message).  The fields seen,
\* answered and deleted are the ones the IMAP server reads and writes
\* (imapcore.Message); a delivery does not store them, and a field that is
\* not stored decodes as false.
DeliveryDoc(sess) ==
    LET ur == sess.users[sess.i]
        flags == sess.plan.flags
    IN  [user |-> ur.User, mailbox |-> sess.mailbox.id, uid |-> DeliveryUID(sess),
         modseq |-> sess.mailbox.modifyIndex + 1, size |-> DeliveredSize(sess),
         unseen |-> ~contains(flags, "\\Seen"), undeleted |-> TRUE,
         flagged |-> contains(flags, "\\Flagged"), draft |-> contains(flags, "\\Draft"),
         seen |-> FALSE, answered |-> FALSE, deleted |-> FALSE,
         rcpt |-> ur.Recipient]

\* processMessage: InsertOne of the message
PMInsert(l, dbErr) ==
    LET sess == lmtp[l]
    IN  /\ sess.pc = "insert"
        /\ IF dbErr
           THEN /\ lmtp' = [lmtp EXCEPT ![l] = Return(sess, "err", 0)]
                /\ UNCHANGED <<messages, nextMsgId, insCount, placed>>
           ELSE /\ messages' = messages @@ (nextMsgId :> DeliveryDoc(sess))
                /\ nextMsgId' = nextMsgId + 1
                /\ insCount' = insCount + 1
                /\ placed' = Append(placed, nextMsgId)
                /\ lmtp' = [lmtp EXCEPT ![l].pc = "quota",
                                        ![l].stored = Append(@, nextMsgId)]
        /\ Fault(dbErr)
        /\ UNCHANGED <<users, mailboxes, imap, server, indexer>>

\* processMessage: UpdateOne {$inc: {storageUsed: size}}; an error is logged
PMQuota(l, dbErr) ==
    LET sess == lmtp[l]
        u    == sess.users[sess.i].User
        done == [sess EXCEPT !.responses = Append(@, "ok"),
                             !.i = NextRecipient(sess.i, Len(sess.users), "ok"),
                             !.pc = "proc", !.mailbox = NoBox]
    IN  /\ sess.pc = "quota"
        /\ users' = IF dbErr \/ u \notin DOMAIN users THEN users
                    ELSE [users EXCEPT ![u].storageUsed = @ + DeliveredSize(sess)]
        /\ lmtp' = [lmtp EXCEPT ![l] = done]
        /\ Fault(dbErr)
        /\ UNCHANGED <<mailboxes, messages, nextMsgId, insCount, placed, imap, server, indexer>>

\* the single status Session.Data returns: nil if any recipient succeeded
DataStatus(responses) ==
    IF \E k \in 1..Len(responses) : responses[k] = "ok" THEN 250 ELSE 450

\* Session.Data after the loop
DataFinish(l) ==
    LET sess == lmtp[l]
    IN  /\ sess.pc = "proc"
        /\ sess.i > Len(sess.users)
        /\ lmtp' = [lmtp EXCEPT ![l].pc = "idle",
                                ![l].reply = <<DataStatus(sess.responses)>>]
        /\ UNCHANGED <<storeVars, faults, imap, server, indexer>>

(***************************************************************************)
(* IMAP (imap_core package).                                               *)
(***************************************************************************)
\* server options as cmd/imap.go sets them: STARTTLS offered, certificate
\* loaded
IgnoreSTARTTLS == FALSE
TLSConfigured == TRUE

\* the tag the client puts on its command
Tag == "A1"

\* text is the sequence of its characters
TxtUID == <<"U", "I", "D">>
TxtFLAGS == <<"F", "L", "A", "G", "S">>
TxtINTERNALDATE == <<"I", "N", "T", "E", "R", "N", "A", "L", "D", "A", "T", "E">>
TxtRFC822SIZE == <<"R", "F", "C", "8", "2", "2", ".", "S", "I", "Z", "E">>
TxtENVELOPE == <<"E", "N", "V", "E", "L", "O", "P", "E">>
TxtBODYSTRUCTURE == <<"B", "O", "D", "Y", "S", "T", "R", "U", "C", "T", "U", "R", "E">>
TxtBODYPEEKHEADER == <<"B", "O", "D", "Y", ".", "P", "E", "E", "K", "[", "H", "E", "A", "D", "E", "R", "]">>
TxtBODYHEADER == <<"B", "O", "D", "Y", "[", "H", "E", "A", "D", "E", "R", "]">>
TxtBODYPEEKTEXT == <<"B", "O", "D", "Y", ".", "P", "E", "E", "K", "[", "T", "E", "X", "T", "]">>
TxtBODYTEXT == <<"B", "O", "D", "Y", "[", "T", "E", "X", "T", "]">>
TxtRFC822 == <<"R", "F", "C", "8", "2", "2">>
TxtBODYPEEK == <<"B", "O", "D", "Y", ".", "P", "E", "E", "K", "[">>
TxtBODY == <<"B", "O", "D", "Y", "[", "]">>
TxtLowerFlags == <<"f", "l", "a", "g", "s">>
LowerCase == <<"a", "b", "c", "d", "e", "f", "g", "h", "i", "j", "k", "l", "m", "n", "o", "p", "q", "r", "s", "t", "u", "v", "w", "x", "y", "z">>
UpperCase == <<"A", "B", "C", "D", "E", "F", "G", "H", "I", "J", "K", "L", "M", "N", "O", "P", "Q", "R", "S", "T", "U", "V", "W", "X", "Y", "Z">>

\* strings.Contains
Contains(s, substr) ==
    \E k \in 0..(Len(s) - Len(substr)) : SubSeq(s, k + 1, k + Len(substr)) = substr

\* strings.HasPrefix
HasPrefix(s, prefix) ==
    Len(prefix) <= Len(s) /\ SubSeq(s, 1, Len(prefix)) = prefix

\* strings.ToUpper
ToUpper(s) ==
    [k \in 1..Len(s) |->
        IF \E c \in 1..Len(LowerCase) : LowerCase[c] = s[k]
        THEN UpperCase[CHOOSE c \in 1..Len(LowerCase) : LowerCase[c] = s[k]]
        ELSE s[k]]

\* the argument text of FETCH: the items in parentheses, separated by blanks
RECURSIVE JoinItems(_)
JoinItems(tokens) ==
    IF tokens = << >> THEN << >>
    ELSE IF Len(tokens) = 1 THEN Head(tokens)
    ELSE Head(tokens) \o <<" ">> \o JoinItems(Tail(tokens))

ItemsText(tokens) == <<"(">> \o JoinItems(tokens) \o <<")">>

\* sequence sets a client may send: a number, "*", "a:b" or "a:*"
NoSeq == [kind |-> "none", a |-> 0, b |-> 0]
SeqNum(n) == [kind |-> "num", a |-> n, b |-> 0]
SeqAll == [kind |-> "all", a |-> 0, b |-> 0]
SeqFrom(n) == [kind |-> "from", a |-> n, b |-> 0]

NoArgs == [seq |-> NoSeq, items |-> << >>, dest |-> "", action |-> "", flags |-> {},
           src |-> "", username |-> "", password |-> ""]
NoPre == [count |-> 0, src |-> 0, dest |-> 0, uidNext |-> 0]

\* the Session handleConnection creates
NewImapSession ==
    [state |-> "NotAuthenticated", authenticated |-> FALSE, user |-> "",
     selectedBox |-> 0, pc |-> "idle", cmd |-> "", out |-> << >>, args |-> NoArgs,
     destBox |-> NoBox, cursor |-> << >>, movedUIDs |-> << >>,
     deletedUIDs |-> << >>, moved |-> << >>, pre |-> NoPre]

\* writeResponse and writeUntaggedResponse: the line appended to what the
\* session has written for the command
writeResponse(out, tag, status, text) ==
    Append(out, [tag |-> tag, status |-> status, text |-> text, n |-> 0])

writeUntaggedResponse(out, text, n) ==
    Append(out, [tag |-> "*", status |-> "", text |-> text, n |-> n])

\* processCommand reads the next line: the locals of the previous command
\* are gone, and the session starts writing the responses of this one
Begin(sess, command, args) ==
    [sess EXCEPT !.cmd = command, !.out = << >>, !.args = args, !.destBox = NoBox,
                 !.cursor = << >>, !.movedUIDs = << >>, !.deletedUIDs = << >>,
                 !.moved = << >>, !.pre = NoPre]

\* a handler that answers with one tagged line and changes nothing else
Answer(sess, command, args, status, text) ==
    [Begin(sess, command, args) EXCEPT !.out = writeResponse(<< >>, Tag, status, text)]

\* the session has nothing left of the previous command
Fresh(sess) == sess = Begin(sess, "", NoArgs)

\* handleConnection on an empty line: nothing is written
EmptyLine(s) ==
    /\ imap[s].pc = "idle"
    /\ ~Fresh(imap[s])
    /\ imap' = [imap EXCEPT ![s] = Begin(@, "", NoArgs)]
    /\ UNCHANGED <<storeVars, faults, lmtp, server, indexer>>

\* processCommand on a line with fewer than two words
BadLine(s) ==
    /\ imap[s].pc = "idle"
    /\ imap' = [imap EXCEPT ![s] =
                  [Begin(@, "", NoArgs) EXCEPT
                      !.out = writeResponse(<< >>, "*", "BAD", "Invalid command format")]]
    /\ UNCHANGED <<storeVars, faults, lmtp, server, indexer>>

\* processCommand on a command it does not know
Unknown(s) ==
    /\ imap[s].pc = "idle"
    /\ imap' = [imap EXCEPT ![s] = Answer(@, "XYZZY", NoArgs, "BAD", "Unknown command")]
    /\ UNCHANGED <<storeVars, faults, lmtp, server, indexer>>

\* handleNoop
Noop(s) ==
    /\ imap[s].pc = "idle"
    /\ imap' = [imap EXCEPT ![s] = Answer(@, "NOOP", NoArgs, "OK", "NOOP completed")]
    /\ UNCHANGED <<storeVars, faults, lmtp, server, indexer>>

\* a loop that would read the next line whatever the state
LoopAfterReadsOn(state) == "idle"

\* handleConnection after processCommand returned without error: the loop
\* ends on StateLogout and the deferred conn.Close() runs
LoopAfter(state) == IF state = "Logout" THEN "closed" ELSE "idle"

\* handleLogout; handleConnection leaves its loop on StateLogout
Logout(s) ==
    /\ imap[s].pc = "idle"
    /\ imap' = [imap EXCEPT ![s] =
                  [Begin(@, "LOGOUT", NoArgs) EXCEPT
                      !.state = "Logout", !.pc = LoopAfter("Logout"),
                      !.out = writeResponse(
                                writeUntaggedResponse(<< >>, "BYE", 0),
                                Tag, "OK", "LOGOUT completed")]]
    /\ UNCHANGED <<storeVars, faults, lmtp, server, indexer>>

\* handleStartTLS; when the handshake fails the handler returns the error
\* and handleConnection writes "* BAD Internal server error" and leaves
StartTLS(s, handshakeErr) ==
    LET sess == Begin(imap[s], "STARTTLS", NoArgs)
        ok   == writeResponse(<< >>, Tag, "OK", "Begin TLS negotiation now")
    IN  /\ imap[s].pc = "idle"
        /\ imap' = [imap EXCEPT ![s] =
              IF IgnoreSTARTTLS
              THEN [sess EXCEPT !.out = writeResponse(<< >>, Tag, "BAD",
                                                      "STARTTLS not available")]
              ELSE IF ~TLSConfigured
              THEN [sess EXCEPT !.out = writeResponse(<< >>, Tag, "BAD",
                                                      "TLS not configured")]
              ELSE IF handshakeErr
              THEN [sess EXCEPT !.pc = "closed",
                                !.out = writeResponse(ok, "*", "BAD",
                                                      "Internal server error")]
              ELSE [sess EXCEPT !.out = ok]]
        /\ Fault(handshakeErr)
        /\ UNCHANGED <<storeVars, lmtp, server, indexer>>

\* handleConnection for the next client on this connection slot
Connect(s) ==
    /\ imap[s].pc = "closed"
    /\ server.listener = "open"
    /\ imap' = [imap EXCEPT ![s] = NewImapSession]
    /\ UNCHANGED <<storeVars, faults, lmtp, server, indexer>>

\* a comparison that accepts every password
CompareAny(hash, password) == TRUE

\* bcrypt.CompareHashAndPassword: the stored hash is the hash of password;
\* a user document holds the password its hash was made from
CompareHashAndPassword(hash, password) == hash = password

\* handleLogin
Login(s, username, password, dbErr) ==
    LET sess == imap[s]
        args == [NoArgs EXCEPT !.username = username, !.password = password]
        hit  == {u \in DOMAIN users : users[u].username = username}
        user == CHOOSE u \in hit : TRUE
    IN  /\ sess.pc = "idle"
        /\ imap' = [imap EXCEPT ![s] =
              IF sess.authenticated
              THEN Answer(sess, "LOGIN", args, "BAD", "Already authenticated")
              ELSE IF dbErr \/ hit = {}
              THEN Answer(sess, "LOGIN", args, "NO", "Authentication failed")
              ELSE IF ~CompareHashAndPassword(users[user].password, password)
              THEN Answer(sess, "LOGIN", args, "NO", "Authentication failed")
              ELSE [Answer(sess, "LOGIN", args, "OK", "LOGIN completed") EXCEPT
                       !.authenticated = TRUE, !.user = user,
                       !.state = "Authenticated"]]
        /\ Fault(dbErr /\ ~sess.authenticated)
        /\ UNCHANGED <<storeVars, lmtp, server, indexer>>

\* handleSelect: the session after the command and what it wrote
SelectResult(sess, command, path, dbErr) ==
    LET hits == MailboxByPath(sess.user, path)
        id   == CHOOSE b \in hits : TRUE
        args == [NoArgs EXCEPT !.dest = path]
        o1   == writeUntaggedResponse(<< >>, "EXISTS", Cardinality(MsgsIn(id)))
        o2   == writeUntaggedResponse(o1, "RECENT", 0)
        o3   == writeUntaggedResponse(o2, "FLAGS", 0)
        o4   == writeUntaggedResponse(o3, "OK [PERMANENTFLAGS]", 0)
        o5   == writeUntaggedResponse(o4, "OK [UIDNEXT]", mailboxes[id].uidNext)
        o6   == writeUntaggedResponse(o5, "OK [UIDVALIDITY]", mailboxes[id].uidValidity)
    IN  IF ~sess.authenticated
        THEN Answer(sess, command, args, "NO", "Not authenticated")
        ELSE IF path = ""
        THEN Answer(sess, command, args, "BAD", "Invalid mailbox name")
        ELSE IF hits = {}
        THEN Answer(sess, command, args, "NO", "Mailbox does not exist")
        ELSE IF dbErr
        THEN Answer(sess, command, args, "NO", "Failed to access messages")
        ELSE [Begin(sess, command, args) EXCEPT
                 !.selectedBox = id, !.state = "Selected",
                 !.out = writeResponse(o6, Tag, "OK", "[READ-WRITE] SELECT completed")]

\* handleSelect
Select(s, path, dbErr) ==
    /\ imap[s].pc = "idle"
    /\ imap' = [imap EXCEPT ![s] = SelectResult(@, "SELECT", path, dbErr)]
    /\ Fault(dbErr)
    /\ UNCHANGED <<storeVars, lmtp, server, indexer>>

\* handleExamine: handleSelect, then one more tagged line
Examine(s, path, dbErr) ==
    /\ imap[s].pc = "idle"
    /\ imap' = [imap EXCEPT ![s] =
                  LET sel == SelectResult(@, "EXAMINE", path, dbErr)
                  IN  [sel EXCEPT !.out = writeResponse(sel.out, Tag, "OK",
                                              "[READ-ONLY] EXAMINE completed")]]
    /\ Fault(dbErr)
    /\ UNCHANGED <<storeVars, lmtp, server, indexer>>

\* handleClose: DeleteMany of the messages marked deleted; an error is logged
Close(s, dbErr) ==
    LET sess == imap[s]
        gone == {m \in MsgsIn(sess.selectedBox) : messages[m].deleted}
    IN  /\ sess.pc = "idle"
        /\ IF sess.state # "Selected"
           THEN /\ imap' = [imap EXCEPT ![s] =
                              Answer(sess, "CLOSE", NoArgs, "BAD", "No mailbox selected")]
                /\ UNCHANGED <<messages, placed>>
           ELSE /\ messages' = IF dbErr \/ sess.selectedBox = 0 THEN messages
                               ELSE [m \in DOMAIN messages \ gone |-> messages[m]]
                /\ placed' = IF dbErr \/ sess.selectedBox = 0 THEN placed
                             ELSE PlacedWithout(placed, gone)
                /\ imap' = [imap EXCEPT ![s] =
                              [Answer(sess, "CLOSE", NoArgs, "OK", "CLOSE completed")
                                  EXCEPT !.selectedBox = 0, !.state = "Authenticated"]]
        /\ Fault(dbErr /\ sess.state = "Selected")
        /\ UNCHANGED <<users, mailboxes, nextMsgId, insCount, lmtp, server, indexer>>

(***************************************************************************)
(* IMAP commands on the messages of the selected mailbox.                  *)
(***************************************************************************)
TxtAddFlags == <<"+", "F", "L", "A", "G", "S">>
TxtRemoveFlags == <<"-", "F", "L", "A", "G", "S">>
TxtSILENT == <<"S", "I", "L", "E", "N", "T">>
TxtAddFlagsSilent == <<"+", "F", "L", "A", "G", "S", ".", "S", "I", "L", "E", "N", "T">>

\* strconv.Atoi of a sequence set: anything but a number yields 0
Atoi(seq) == IF seq.kind = "num" THEN seq.a ELSE 0

\* the filter handleFetch builds from the sequence set: it compares the
\* numbers with the uid field
FetchFilter(seq, mb) ==
    IF seq.kind = "from" THEN {m \in MsgsIn(mb) : messages[m].uid >= seq.a}
    ELSE IF seq.kind = "range"
    THEN {m \in MsgsIn(mb) : messages[m].uid >= seq.a /\ messages[m].uid <= seq.b}
    ELSE IF seq.kind = "all" THEN MsgsIn(mb)
    ELSE {m \in MsgsIn(mb) : messages[m].uid = Atoi(seq)}

\* the filter handleStore, handleCopy and handleMove build
StoreFilter(seq, mb) ==
    IF seq.kind = "all" THEN MsgsIn(mb)
    ELSE {m \in MsgsIn(mb) : messages[m].uid = Atoi(seq)}

\* the documents a cursor yields: without a sort the store returns them in
\* natural order, the order of insertion
RECURSIVE Natural(_)
Natural(S) ==
    IF S = {} THEN << >>
    ELSE LET m == MinOf(S) IN <<m>> \o Natural(S \ {m})

\* ... and with SetSort({uid: 1}) by ascending uid
RECURSIVE SortedByUID(_)
SortedByUID(S) ==
    IF S = {} THEN << >>
    ELSE LET u == MinOf({messages[m].uid : m \in S})
             m == MinOf({x \in S : messages[x].uid = u})
         IN  <<m>> \o SortedByUID(S \ {m})

\* a cursor that would yield documents as they were before the last STORE:
\* without the \Deleted flag
DecodedStale(order) ==
    [k \in 1..Len(order) |->
        [id |-> order[k], doc |-> [messages[order[k]] EXCEPT !.deleted = FALSE]]]

\* cursor.Decode of each document
Decoded(order) == [k \in 1..Len(order) |-> [id |-> order[k], doc |-> messages[order[k]]]]

\* handleFetch up to the cursor
Fetch(s, seq, tokens, dbErr) ==
    LET sess == imap[s]
        args == [NoArgs EXCEPT !.seq = seq, !.items = tokens]
    IN  /\ sess.pc = "idle"
        /\ IF sess.state # "Selected"
           THEN imap' = [imap EXCEPT ![s] =
                           Answer(sess, "FETCH", args, "BAD", "No mailbox selected")]
           ELSE IF dbErr
           THEN imap' = [imap EXCEPT ![s] =
                           Answer(sess, "FETCH", args, "NO", "Database error")]
           ELSE imap' = [imap EXCEPT ![s] =
                           [Begin(sess, "FETCH", args) EXCEPT
                               !.pc = "fetch",
                               !.cursor = Decoded(SortedByUID(
                                              FetchFilter(seq, sess.selectedBox)))]]
        /\ Fault(dbErr /\ sess.state = "Selected")
        /\ UNCHANGED <<storeVars, lmtp, server, indexer>>

\* buildFetchResponse: the data items of the response and whether it calls
\* markMessageSeen
buildFetchResponse(msg, items) ==
    [parts |->
        (IF Contains(items, TxtUID) THEN <<"UID">> ELSE << >>)
        \o (IF Contains(items, TxtFLAGS) THEN <<"FLAGS">> ELSE << >>)
        \o (IF Contains(items, TxtINTERNALDATE) THEN <<"INTERNALDATE">> ELSE << >>)
        \o (IF Contains(items, TxtRFC822SIZE) THEN <<"RFC822.SIZE">> ELSE << >>)
        \o (IF Contains(items, TxtENVELOPE) THEN <<"ENVELOPE">> ELSE << >>)
        \o (IF Contains(items, TxtBODYSTRUCTURE) THEN <<"BODYSTRUCTURE">> ELSE << >>)
        \o (IF Contains(items, TxtBODYPEEKHEADER) \/ Contains(items, TxtBODYHEADER)
            THEN <<"BODY[HEADER]">> ELSE << >>)
        \o (IF Contains(items, TxtBODYPEEKTEXT) \/ Contains(items, TxtBODYTEXT)
            THEN <<"BODY[TEXT]">> ELSE << >>)
        \o (IF Contains(items, TxtRFC822) THEN <<"RFC822">> ELSE << >>),
     markSeen |->
        \/ /\ Contains(items, TxtBODYPEEKHEADER) \/ Contains(items, TxtBODYHEADER)
           /\ Contains(items, TxtBODYHEADER) /\ ~msg.seen
        \/ /\ Contains(items, TxtBODYPEEKTEXT) \/ Contains(items, TxtBODYTEXT)
           /\ Contains(items, TxtBODYTEXT) /\ ~msg.seen
        \/ Contains(items, TxtRFC822) /\ ~msg.seen]

\* markMessageSeen: UpdateOne {_id} $set {seen: true}; the result is ignored
markMessageSeen(id, dbErr) ==
    IF dbErr \/ id \notin DOMAIN messages THEN messages
    ELSE [messages EXCEPT ![id].seen = TRUE]

\* the loop of handleFetch: one message of the cursor
FetchNext(s, dbErr) ==
    LET sess == imap[s]
        msg  == Head(sess.cursor)
        fetchItems == ToUpper(ItemsText(sess.args.items))
        r    == buildFetchResponse(msg.doc, fetchItems)
    IN  /\ sess.pc = "fetch"
        /\ sess.cursor # << >>
        /\ messages' = IF r.markSeen THEN markMessageSeen(msg.id, dbErr) ELSE messages
        /\ imap' = [imap EXCEPT ![s].cursor = Tail(@),
                                ![s].out = writeUntaggedResponse(@, "FETCH", msg.doc.uid)]
        /\ Fault(dbErr /\ r.markSeen)
        /\ UNCHANGED <<users, mailboxes, nextMsgId, insCount, placed, lmtp, server, indexer>>

\* handleFetch after the loop
FetchEnd(s) ==
    /\ imap[s].pc = "fetch"
    /\ imap[s].cursor = << >>
    /\ imap' = [imap EXCEPT ![s].pc = "idle",
                            ![s].out = writeResponse(@, Tag, "OK", "FETCH completed")]
    /\ UNCHANGED <<storeVars, faults, lmtp, server, indexer>>

\* parseFlags: every flag it knows, false unless listed
parseFlags(flagList) ==
    [seen     |-> "\\Seen" \in flagList,
     answered |-> "\\Answered" \in flagList,
     flagged  |-> "\\Flagged" \in flagList,
     deleted  |-> "\\Deleted" \in flagList,
     draft    |-> "\\Draft" \in flagList]

FlagNames == {"seen", "answered", "flagged", "deleted", "draft"}

\* the $set document handleStore builds for an action, or none
StoreUpdate(action, flags) ==
    IF HasPrefix(action, TxtAddFlags) THEN [valid |-> TRUE, set |-> flags]
    ELSE IF HasPrefix(action, TxtRemoveFlags)
    THEN [valid |-> TRUE, set |-> [f \in FlagNames |-> FALSE]]
    ELSE IF action = TxtFLAGS THEN [valid |-> TRUE, set |-> flags]
    ELSE [valid |-> FALSE, set |-> flags]

\* $set of the flag fields of one document
SetFlags(doc, set) ==
    [doc EXCEPT !.seen = set.seen, !.answered = set.answered, !.flagged = set.flagged,
                !.deleted = set.deleted, !.draft = set.draft]

\* handleStore up to UpdateMany
Store(s, seq, rawAction, flagList, dbErr) ==
    LET sess   == imap[s]
        action == ToUpper(rawAction)
        args   == [NoArgs EXCEPT !.seq = seq, !.action = action, !.flags = flagList]
        update == StoreUpdate(action, parseFlags(flagList))
        hit    == StoreFilter(seq, sess.selectedBox)
    IN  /\ sess.pc = "idle"
        /\ IF sess.state # "Selected"
           THEN /\ imap' = [imap EXCEPT ![s] =
                              Answer(sess, "STORE", args, "BAD", "No mailbox selected")]
                /\ UNCHANGED messages
           ELSE IF ~update.valid
           THEN /\ imap' = [imap EXCEPT ![s] =
                              Answer(sess, "STORE", args, "BAD", "Invalid STORE action")]
                /\ UNCHANGED messages
           ELSE IF dbErr
           THEN /\ imap' = [imap EXCEPT ![s] =
                              Answer(sess, "STORE", args, "NO", "Failed to update flags")]
                /\ UNCHANGED messages
           ELSE /\ messages' = [m \in DOMAIN messages |->
                                  IF m \in hit THEN SetFlags(messages[m], update.set)
                                  ELSE messages[m]]
                /\ imap' = [imap EXCEPT ![s] =
                              IF Contains(action, TxtSILENT)
                              THEN Answer(sess, "STORE", args, "OK", "STORE completed")
                              ELSE [Begin(sess, "STORE", args) EXCEPT !.pc = "store"]]
        /\ Fault(dbErr /\ sess.state = "Selected" /\ update.valid)
        /\ UNCHANGED <<users, mailboxes, nextMsgId, insCount, placed, lmtp, server, indexer>>

RECURSIVE FetchLines(_, _)
FetchLines(out, docs) ==
    IF docs = << >> THEN out
    ELSE FetchLines(writeUntaggedResponse(out, "FETCH", Head(docs).doc.uid), Tail(docs))

\* handleStore: the Find for the FETCH responses; on an error none is sent
StoreFetch(s, dbErr) ==
    LET sess == imap[s]
    IN  /\ sess.pc = "store"
        /\ imap' = [imap EXCEPT ![s].pc = "idle",
                      ![s].out = writeResponse(
                          IF dbErr THEN @
                          ELSE FetchLines(@, Decoded(Natural(
                                   StoreFilter(sess.args.seq, sess.selectedBox)))),
                          Tag, "OK", "STORE completed")]
        /\ Fault(dbErr)
        /\ UNCHANGED <<storeVars, lmtp, server, indexer>>

\* the comma-separated UID set "a,b" of the UID commands
SeqPair(a, b) == [kind |-> "pair", a |-> a, b |-> b]

\* the filter handleUIDStore builds from the UID set
UIDStoreFilter(seq, mb) ==
    IF seq.kind = "all" THEN MsgsIn(mb)
    ELSE IF seq.kind = "pair"
    THEN {m \in MsgsIn(mb) : messages[m].uid \in {seq.a, seq.b}}
    ELSE {m \in MsgsIn(mb) : messages[m].uid = Atoi(seq)}

\* handleUIDStore up to UpdateMany
UIDStore(s, seq, rawAction, flagList, dbErr) ==
    LET sess   == imap[s]
        action == ToUpper(rawAction)
        args   == [NoArgs EXCEPT !.seq = seq, !.action = action, !.flags = flagList]
        update == StoreUpdate(action, parseFlags(flagList))
        hit    == UIDStoreFilter(seq, sess.selectedBox)
    IN  /\ sess.pc = "idle"
        /\ IF sess.state # "Selected"
           THEN /\ imap' = [imap EXCEPT ![s] =
                              Answer(sess, "UID STORE", args, "BAD", "No mailbox selected")]
                /\ UNCHANGED messages
           ELSE IF ~update.valid
           THEN /\ imap' = [imap EXCEPT ![s] =
                              Answer(sess, "UID STORE", args, "BAD", "Invalid STORE action")]
                /\ UNCHANGED messages
           ELSE IF dbErr
           THEN /\ imap' = [imap EXCEPT ![s] =
                              Answer(sess, "UID STORE", args, "NO", "Failed to update flags")]
                /\ UNCHANGED messages
           ELSE /\ messages' = [m \in DOMAIN messages |->
                                  IF m \in hit THEN SetFlags(messages[m], update.set)
                                  ELSE messages[m]]
                /\ imap' = [imap EXCEPT ![s] =
                              IF Contains(action, TxtSILENT)
                              THEN Answer(sess, "UID STORE", args, "OK", "UID STORE completed")
                              ELSE [Begin(sess, "UID STORE", args) EXCEPT !.pc = "uidstore"]]
        /\ Fault(dbErr /\ sess.state = "Selected" /\ update.valid)
        /\ UNCHANGED <<users, mailboxes, nextMsgId, insCount, placed, lmtp, server, indexer>>

\* handleUIDStore: the Find for the FETCH responses; on an error none is sent
UIDStoreFetch(s, dbErr) ==
    LET sess == imap[s]
    IN  /\ sess.pc = "uidstore"
        /\ imap' = [imap EXCEPT ![s].pc = "idle",
                      ![s].out = writeResponse(
                          IF dbErr THEN @
                          ELSE FetchLines(@, Decoded(Natural(
                                   UIDStoreFilter(sess.args.seq, sess.selectedBox)))),
                          Tag, "OK", "UID STORE completed")]
        /\ Fault(dbErr)
        /\ UNCHANGED <<storeVars, lmtp, server, indexer>>

\* handleAppend: parts are the arguments parseQuotedArguments returns, the
\* mailbox first; no branch stores a message
handleAppend(s, parts, dbErr) ==
    LET sess == imap[s]
        args == [NoArgs EXCEPT !.dest = IF parts = << >> THEN "" ELSE parts[1]]
        hits == MailboxByPath(sess.user, args.dest)
    IN  /\ sess.pc = "idle"
        /\ imap' = [imap EXCEPT ![s] =
              IF ~sess.authenticated
              THEN Answer(sess, "APPEND", args, "NO", "Not authenticated")
              ELSE IF Len(parts) < 2
              THEN Answer(sess, "APPEND", args, "BAD", "APPEND expects mailbox and message")
              ELSE IF dbErr \/ hits = {}
              THEN Answer(sess, "APPEND", args, "NO", "[TRYCREATE] Mailbox does not exist")
              ELSE Answer(sess, "APPEND", args, "NO", "APPEND not fully implemented")]
        /\ Fault(dbErr /\ sess.authenticated /\ Len(parts) >= 2)
        /\ UNCHANGED <<storeVars, lmtp, server, indexer>>

\* handleExpunge up to the cursor
Expunge(s, dbErr) ==
    LET sess == imap[s]
        hit  == {m \in MsgsIn(sess.selectedBox) : messages[m].deleted}
    IN  /\ sess.pc = "idle"
        /\ IF sess.state # "Selected"
           THEN imap' = [imap EXCEPT ![s] =
                           Answer(sess, "EXPUNGE", NoArgs, "BAD", "No mailbox selected")]
           ELSE IF dbErr
           THEN imap' = [imap EXCEPT ![s] =
                           Answer(sess, "EXPUNGE", NoArgs, "NO", "Database error")]
           ELSE imap' = [imap EXCEPT ![s] =
                           [Begin(sess, "EXPUNGE", NoArgs) EXCEPT
                               !.pc = "expunge",
                               !.deletedUIDs = [k \in 1..Cardinality(hit) |->
                                                  messages[SortedByUID(hit)[k]].uid]]]
        /\ Fault(dbErr /\ sess.state = "Selected")
        /\ UNCHANGED <<storeVars, lmtp, server, indexer>>

RECURSIVE ExpungeLines(_, _)
ExpungeLines(out, uids) ==
    IF uids = << >> THEN out
    ELSE ExpungeLines(writeUntaggedResponse(out, "EXPUNGE", Head(uids)), Tail(uids))

\* handleExpunge: DeleteMany, then one EXPUNGE line per UID collected
ExpungeDelete(s, dbErr) ==
    LET sess == imap[s]
        gone == {m \in MsgsIn(sess.selectedBox) : messages[m].deleted}
    IN  /\ sess.pc = "expunge"
        /\ messages' = IF dbErr THEN messages
                       ELSE [m \in DOMAIN messages \ gone |-> messages[m]]
        /\ placed' = IF dbErr THEN placed ELSE PlacedWithout(placed, gone)
        /\ imap' = [imap EXCEPT ![s].pc = "idle", ![s].deletedUIDs = << >>,
                      ![s].out = IF dbErr
                                 THEN writeResponse(@, Tag, "NO", "Failed to delete messages")
                                 ELSE writeResponse(ExpungeLines(@, sess.deletedUIDs),
                                                    Tag, "OK", "EXPUNGE completed")]
        /\ Fault(dbErr)
        /\ UNCHANGED <<users, mailboxes, nextMsgId, insCount, lmtp, server, indexer>>

TxtFETCH == <<"F", "E", "T", "C", "H">>
TxtSTORE == <<"S", "T", "O", "R", "E">>
TxtCOPY == <<"C", "O", "P", "Y">>
TxtSEARCH == <<"S", "E", "A", "R", "C", "H">>
TxtMOVE == <<"M", "O", "V", "E">>
TxtLowerMove == <<"m", "o", "v", "e">>

\* the subcommands the UID branch of processCommand hands to a handler
UIDCommands == {TxtFETCH, TxtSTORE, TxtCOPY, TxtSEARCH}

\* processCommand, case "UID", for a line without a subcommand or with a
\* subcommand it has no handler for
UID(s, sub, seq, dest) ==
    LET sess == imap[s]
        uidCommand == ToUpper(sub)
        args == IF sub = << >> THEN [NoArgs EXCEPT !.action = << >>]
                ELSE [NoArgs EXCEPT !.action = uidCommand, !.seq = seq, !.dest = dest]
    IN  /\ sess.pc = "idle"
        /\ uidCommand \notin UIDCommands
        /\ imap' = [imap EXCEPT ![s] =
              IF sub = << >>
              THEN Answer(sess, "UID", args, "BAD", "UID command requires subcommand")
              ELSE Answer(sess, "UID", args, "BAD", "Unknown UID command")]
        /\ UNCHANGED <<storeVars, faults, lmtp, server, indexer>>

(***************************************************************************)
(* Shutdown of the IMAP server (imap_core, cmd/imap.go).                   *)
(***************************************************************************)
\* the server while Start accepts connections: quit is open, the listener
\* listens; closed are the sessions whose transport Shutdown has closed,
\* expired tells that the context main passed to Shutdown is done, done that
\* the channel s.done is closed, late which connection handlers were running
\* when the context expired, result what Shutdown returned
NewIMAPServer ==
    [phase |-> "running", quit |-> FALSE, listener |-> "open", closed |-> {},
     expired |-> FALSE, done |-> FALSE, late |-> {}, result |-> "none"]

\* main on SIGINT or SIGTERM calls Shutdown: close(s.quit) and
\* s.listener.Close()
ShutdownStart ==
    /\ server.phase = "running"
    /\ server' = [server EXCEPT !.phase = "closing", !.quit = TRUE,
                                !.listener = "closed"]
    /\ UNCHANGED <<storeVars, faults, lmtp, imap, indexer>>

\* s.sessions: the connections whose handler has registered its session and
\* has not yet run its deferred delete
Sessions == {s \in ImapIds : imap[s].pc \notin {"closed", "accepted"}}

\* Shutdown: session.close() on every session of s.sessions
ShutdownSessions ==
    /\ server.phase = "closing"
    /\ server' = [server EXCEPT !.phase = "waiting", !.closed = Sessions]
    /\ UNCHANGED <<storeVars, faults, lmtp, imap, indexer>>

\* the timeout of the context of main (30 s) passes
Expire ==
    /\ server.phase # "running"
    /\ ~server.expired
    /\ server' = [server EXCEPT !.expired = TRUE,
                                !.late = {s \in ImapIds : imap[s].pc # "closed"}]
    /\ UNCHANGED <<storeVars, faults, lmtp, imap, indexer>>

\* Shutdown returns from its select: nil when s.done is closed, ctx.Err()
\* when the context is done; no statement of the package closes s.done
ShutdownReturn ==
    /\ server.phase = "waiting"
    /\ \E result \in {r \in {"nil", "ctx.Err"} :
                          \/ r = "nil" /\ server.done
                          \/ r = "ctx.Err" /\ server.expired} :
          server' = [server EXCEPT !.phase = "returned", !.result = result]
    /\ UNCHANGED <<storeVars, faults, lmtp, imap, indexer>>

\* the transport of session s is open
Live(s) == s \notin server.closed

\* a session whose transport was closed: the scanner reads no further line,
\* and the next write of a running handleFetch fails, after
\* buildFetchResponse has run for the message at hand; the handler returns
\* the error and handleConnection ends
Cut(s, dbErr) ==
    LET sess == imap[s]
        msg  == Head(sess.cursor)
        r    == buildFetchResponse(msg.doc, ToUpper(ItemsText(sess.args.items)))
        mark == sess.pc = "fetch" /\ sess.cursor # << >> /\ r.markSeen
    IN  /\ ~Live(s)
        /\ sess.pc \in {"idle", "fetch"}
        /\ messages' = IF mark THEN markMessageSeen(msg.id, dbErr) ELSE messages
        /\ imap' = [imap EXCEPT ![s].pc = "closed"]
        /\ Fault(dbErr /\ mark)
        /\ UNCHANGED <<users, mailboxes, nextMsgId, insCount, placed, lmtp, server, indexer>>

(***************************************************************************)
(* CREATE, DELETE and RENAME (imap_core).                                  *)
(***************************************************************************)
\* what is left under the id of a deleted mailbox: ObjectIDs are not reused
NoMailbox ==
    [user |-> "", path |-> "", specialUse |-> "", modifyIndex |-> 0, uidNext |-> 0,
     uidValidity |-> 0]

\* the mailboxes that exist
Mailboxes == {id \in DOMAIN mailboxes : mailboxes[id] # NoMailbox}

\* time.Now().Unix() at the CREATE commands
Times == {1, 2}

\* the mailbox names the clients send, each the sequence of its characters
TxtWork == <<"W", "o", "r", "k">>
TxtSent == <<"S", "e", "n", "t">>
TxtQuotedWork == <<"\"", "W", "o", "r", "k", "\"">>
TxtWorkSlash == <<"W", "o", "r", "k", "/">>
TxtDoubleSlash == <<"a", "/", "/", "b">>
TxtBlank == <<" ">>
TxtInbox == <<"I", "N", "B", "O", "X">>
TxtDrafts == <<"D", "r", "a", "f", "t", "s">>
TxtTrash == <<"T", "r", "a", "s", "h">>
TxtJunk == <<"J", "u", "n", "k">>
TxtOld == <<"O", "l", "d">>
TxtArchive == <<"A", "r", "c", "h", "i", "v", "e">>

\* the value of the field "path" for each of these names
PathTexts ==
    {[path |-> "", text |-> << >>], [path |-> "Work", text |-> TxtWork],
     [path |-> "Sent", text |-> TxtSent], [path |-> "Work/", text |-> TxtWorkSlash],
     [path |-> "a//b", text |-> TxtDoubleSlash], [path |-> "INBOX", text |-> TxtInbox],
     [path |-> "Drafts", text |-> TxtDrafts], [path |-> "Trash", text |-> TxtTrash],
     [path |-> "Junk", text |-> TxtJunk], [path |-> "Old", text |-> TxtOld],
     [path |-> "Archive", text |-> TxtArchive]}

PathName(text) == (CHOOSE e \in PathTexts : e.text = text).path
PathText(path) == (CHOOSE e \in PathTexts : e.path = path).text

\* strings.HasSuffix
HasSuffix(s, suffix) ==
    Len(suffix) <= Len(s) /\ SubSeq(s, Len(s) - Len(suffix) + 1, Len(s)) = suffix

\* strings.TrimSpace
RECURSIVE TrimSpace(_)
TrimSpace(s) ==
    IF s # << >> /\ Head(s) = " " THEN TrimSpace(Tail(s))
    ELSE IF s # << >> /\ s[Len(s)] = " " THEN TrimSpace(SubSeq(s, 1, Len(s) - 1))
    ELSE s

\* parseMailboxPath: the argument without surrounding blanks and quotes
parseMailboxPath(args) ==
    LET t == TrimSpace(args)
    IN  IF HasPrefix(t, <<"\"">>) /\ HasSuffix(t, <<"\"">>)
        THEN SubSeq(t, 2, Len(t) - 1)
        ELSE t

\* handleCreate up to CountDocuments
Create(s, line, dbErr) ==
    LET sess == imap[s]
        path == PathName(parseMailboxPath(line))
        args == [NoArgs EXCEPT !.dest = path]
    IN  /\ sess.pc = "idle"
        /\ Len(mailboxes) + Cardinality({x \in ImapIds : imap[x].pc = "create"})
              < Len(InitMailboxes) + MaxCreates
        /\ imap' = [imap EXCEPT ![s] =
              IF ~sess.authenticated
              THEN Answer(sess, "CREATE", args, "NO", "Not authenticated")
              ELSE IF path = ""
              THEN Answer(sess, "CREATE", args, "BAD", "Invalid mailbox name")
              ELSE IF dbErr
              THEN Answer(sess, "CREATE", args, "NO", "Database error")
              ELSE IF MailboxByPath(sess.user, path) # {}
              THEN Answer(sess, "CREATE", args, "NO", "[ALREADYEXISTS] Mailbox already exists")
              ELSE [Begin(sess, "CREATE", args) EXCEPT !.pc = "create"]]
        /\ Fault(dbErr /\ sess.authenticated /\ path # "")
        /\ UNCHANGED <<storeVars, lmtp, server, indexer>>

\* the Mailbox handleCreate builds
NewMailbox(user, path, now) ==
    [user |-> user, path |-> path, specialUse |-> "", modifyIndex |-> 0, uidNext |-> 1,
     uidValidity |-> now]

\* handleCreate: InsertOne
CreateInsert(s, now, dbErr) ==
    LET sess == imap[s]
    IN  /\ sess.pc = "create"
        /\ mailboxes' = IF dbErr THEN mailboxes
                        ELSE Append(mailboxes, NewMailbox(sess.user, sess.args.dest, now))
        /\ imap' = [imap EXCEPT ![s].pc = "idle",
                      ![s].out = IF dbErr
                                 THEN writeResponse(@, Tag, "NO", "Failed to create mailbox")
                                 ELSE writeResponse(@, Tag, "OK", "CREATE completed")]
        /\ Fault(dbErr)
        /\ UNCHANGED <<users, messages, nextMsgId, insCount, placed, lmtp, server, indexer>>

\* handleDelete up to the special-use check
Delete(s, path, dbErr) ==
    LET sess == imap[s]
        args == [NoArgs EXCEPT !.dest = path]
        hits == MailboxByPath(sess.user, path)
    IN  /\ sess.pc = "idle"
        /\ IF ~sess.authenticated
           THEN imap' = [imap EXCEPT ![s] =
                           Answer(sess, "DELETE", args, "NO", "Not authenticated")]
           ELSE IF path = ""
           THEN imap' = [imap EXCEPT ![s] =
                           Answer(sess, "DELETE", args, "BAD", "Invalid mailbox name")]
           ELSE IF dbErr \/ hits = {}
           THEN imap' = [imap EXCEPT ![s] =
                           Answer(sess, "DELETE", args, "NO",
                                  "[NONEXISTENT] Mailbox does not exist")]
           ELSE \E id \in hits :
                  imap' = [imap EXCEPT ![s] =
                     IF mailboxes[id].specialUse # ""
                     THEN Answer(sess, "DELETE", args, "NO",
                                 "[CANNOT] Cannot delete special mailbox")
                     ELSE [Begin(sess, "DELETE", args) EXCEPT
                              !.pc = "delete", !.destBox = MailboxDoc(id)]]
        /\ Fault(dbErr /\ sess.authenticated /\ path # "")
        /\ UNCHANGED <<storeVars, lmtp, server, indexer>>

\* handleDelete: DeleteMany of the messages of the mailbox
DeleteMessages(s, dbErr) ==
    LET sess == imap[s]
        gone == MsgsIn(sess.destBox.id)
    IN  /\ sess.pc = "delete"
        /\ messages' = IF dbErr THEN messages
                       ELSE [m \in DOMAIN messages \ gone |-> messages[m]]
        /\ placed' = IF dbErr THEN placed ELSE PlacedWithout(placed, gone)
        /\ imap' = IF dbErr
                   THEN [imap EXCEPT ![s].pc = "idle", ![s].destBox = NoBox,
                           ![s].out = writeResponse(@, Tag, "NO", "Failed to delete messages")]
                   ELSE [imap EXCEPT ![s].pc = "deletebox"]
        /\ Fault(dbErr)
        /\ UNCHANGED <<users, mailboxes, nextMsgId, insCount, lmtp, server, indexer>>

\* handleDelete: DeleteOne of the mailbox
DeleteBox(s, dbErr) ==
    LET sess == imap[s]
    IN  /\ sess.pc = "deletebox"
        /\ mailboxes' = IF dbErr THEN mailboxes
                        ELSE [mailboxes EXCEPT ![sess.destBox.id] = NoMailbox]
        /\ imap' = [imap EXCEPT ![s].pc = "idle",
                      ![s].out = IF dbErr
                                 THEN writeResponse(@, Tag, "NO", "Failed to delete mailbox")
                                 ELSE writeResponse(@, Tag, "OK", "DELETE completed")]
        /\ Fault(dbErr)
        /\ UNCHANGED <<users, messages, nextMsgId, insCount, placed, lmtp, server, indexer>>

\* handleRename up to CountDocuments; parts are the arguments
\* parseQuotedArguments returns
Rename(s, parts, dbErr) ==
    LET sess == imap[s]
        args == IF Len(parts) = 2
                THEN [NoArgs EXCEPT !.src = parts[1], !.dest = parts[2]]
                ELSE NoArgs
    IN  /\ sess.pc = "idle"
        /\ imap' = [imap EXCEPT ![s] =
              IF ~sess.authenticated
              THEN Answer(sess, "RENAME", args, "NO", "Not authenticated")
              ELSE IF Len(parts) # 2
              THEN Answer(sess, "RENAME", args, "BAD",
                          "RENAME expects old and new mailbox names")
              ELSE IF dbErr
              THEN Answer(sess, "RENAME", args, "NO", "Database error")
              ELSE IF MailboxByPath(sess.user, args.dest) # {}
              THEN Answer(sess, "RENAME", args, "NO",
                          "[ALREADYEXISTS] Destination mailbox already exists")
              ELSE [Begin(sess, "RENAME", args) EXCEPT !.pc = "rename"]]
        /\ Fault(dbErr /\ sess.authenticated /\ Len(parts) = 2)
        /\ UNCHANGED <<storeVars, lmtp, server, indexer>>

\* handleRename: UpdateOne {user, path: oldPath} {$set: {path: newPath}} on
\* the first document that matches
RenameUpdate(s, dbErr) ==
    LET sess == imap[s]
        hits == MailboxByPath(sess.user, sess.args.src)
    IN  /\ sess.pc = "rename"
        /\ IF dbErr
           THEN /\ imap' = [imap EXCEPT ![s].pc = "idle",
                              ![s].out = writeResponse(@, Tag, "NO", "Database error")]
                /\ UNCHANGED mailboxes
           ELSE IF hits = {}
           THEN /\ imap' = [imap EXCEPT ![s].pc = "idle",
                              ![s].out = writeResponse(@, Tag, "NO",
                                            "[NONEXISTENT] Source mailbox does not exist")]
                /\ UNCHANGED mailboxes
           ELSE /\ mailboxes' = [mailboxes EXCEPT ![MinOf(hits)].path = sess.args.dest]
                /\ imap' = [imap EXCEPT ![s].pc = "idle",
                              ![s].out = writeResponse(@, Tag, "OK", "RENAME completed")]
        /\ Fault(dbErr)
        /\ UNCHANGED <<users, messages, nextMsgId, insCount, placed, lmtp, server, indexer>>

(***************************************************************************)
(* COPY and MOVE (imap_core), and the move of the HTTP API.                *)
(***************************************************************************)
\* room left, within the bounds, to place n more messages
Room(n) == insCount + n <= MaxPlacements

\* handleCopy up to FindOne of the destination
Copy(s, seq, dest, dbErr) ==
    LET sess == imap[s]
        args == [NoArgs EXCEPT !.seq = seq, !.dest = dest]
        hits == MailboxByPath(sess.user, dest)
    IN  /\ sess.pc = "idle"
        /\ Room(Cardinality(StoreFilter(seq, sess.selectedBox)))
        /\ IF sess.state # "Selected"
           THEN imap' = [imap EXCEPT ![s] =
                           Answer(sess, "COPY", args, "BAD", "No mailbox selected")]
           ELSE IF dbErr \/ hits = {}
           THEN imap' = [imap EXCEPT ![s] =
                           Answer(sess, "COPY", args, "NO",
                                  "[TRYCREATE] Destination mailbox does not exist")]
           ELSE \E id \in hits :
                  imap' = [imap EXCEPT ![s] =
                             [Begin(sess, "COPY", args) EXCEPT
                                 !.pc = "copyfind", !.destBox = MailboxDoc(id)]]
        /\ Fault(dbErr /\ sess.state = "Selected")
        /\ UNCHANGED <<storeVars, lmtp, server, indexer>>

\* handleCopy: Find of the messages to copy
CopyFind(s, dbErr) ==
    LET sess == imap[s]
    IN  /\ sess.pc = "copyfind"
        /\ IF dbErr
           THEN imap' = [imap EXCEPT ![s].pc = "idle", ![s].destBox = NoBox,
                           ![s].out = writeResponse(@, Tag, "NO", "Database error")]
           ELSE imap' = [imap EXCEPT ![s].pc = "copy",
                           ![s].cursor = Decoded(Natural(
                                            StoreFilter(sess.args.seq, sess.selectedBox)))]
        /\ Fault(dbErr)
        /\ UNCHANGED <<storeVars, lmtp, server, indexer>>

\* the UID handleCopy and handleMove give a message: the UIDNext of their
\* own copy of the destination mailbox
NewUID(destBox) == destBox.uidNext

\* newMsg of handleCopy: the decoded imapcore.Message (which has no user,
\* modseq, unseen or undeleted field) under a new id, mailbox and UID
CopyDoc(msg, destBox) ==
    [msg EXCEPT !.mailbox = destBox.id, !.uid = NewUID(destBox),
                !.user = "", !.modseq = 0, !.unseen = FALSE, !.undeleted = FALSE]

\* handleCopy: InsertOne of the copy; on an error the loop continues
CopyInsert(s, dbErr) ==
    LET sess == imap[s]
        msg  == Head(sess.cursor)
    IN  /\ sess.pc = "copy"
        /\ sess.cursor # << >>
        /\ IF dbErr
           THEN /\ imap' = [imap EXCEPT ![s].cursor = Tail(@)]
                /\ UNCHANGED <<messages, nextMsgId, insCount, placed>>
           ELSE /\ messages' = messages @@ (nextMsgId :> CopyDoc(msg.doc, sess.destBox))
                /\ nextMsgId' = nextMsgId + 1
                /\ insCount' = insCount + 1
                /\ placed' = Append(placed, nextMsgId)
                /\ imap' = [imap EXCEPT ![s].pc = "copyinc"]
        /\ Fault(dbErr)
        /\ UNCHANGED <<users, mailboxes, lmtp, server, indexer>>

\* UpdateOne {_id: destBox.ID} {$inc: {uidNext: 1}}; the result is ignored
IncUIDNext(id, dbErr) ==
    IF dbErr \/ id \notin DOMAIN mailboxes THEN mailboxes
    ELSE [mailboxes EXCEPT ![id].uidNext = @ + 1]

\* handleCopy: the counter of the destination, in the store and in destBox
CopyInc(s, dbErr) ==
    LET sess == imap[s]
    IN  /\ sess.pc = "copyinc"
        /\ mailboxes' = IncUIDNext(sess.destBox.id, dbErr)
        /\ imap' = [imap EXCEPT ![s].pc = "copy", ![s].cursor = Tail(@),
                                ![s].destBox.uidNext = @ + 1]
        /\ Fault(dbErr)
        /\ UNCHANGED <<users, messages, nextMsgId, insCount, placed, lmtp, server, indexer>>

\* handleCopy after the loop
CopyEnd(s) ==
    /\ imap[s].pc = "copy"
    /\ imap[s].cursor = << >>
    /\ imap' = [imap EXCEPT ![s].pc = "idle", ![s].destBox = NoBox,
                            ![s].out = writeResponse(@, Tag, "OK", "COPY completed")]
    /\ UNCHANGED <<storeVars, faults, lmtp, server, indexer>>

\* handleMove up to FindOne of the destination
Move(s, seq, dest, dbErr) ==
    LET sess == imap[s]
        args == [NoArgs EXCEPT !.seq = seq, !.dest = dest]
        hits == MailboxByPath(sess.user, dest)
    IN  /\ sess.pc = "idle"
        /\ Room(Cardinality(StoreFilter(seq, sess.selectedBox)))
        /\ IF sess.state # "Selected"
           THEN imap' = [imap EXCEPT ![s] =
                           Answer(sess, "MOVE", args, "BAD", "No mailbox selected")]
           ELSE IF dbErr \/ hits = {}
           THEN imap' = [imap EXCEPT ![s] =
                           Answer(sess, "MOVE", args, "NO",
                                  "[TRYCREATE] Destination mailbox does not exist")]
           ELSE \E id \in hits :
                  imap' = [imap EXCEPT ![s] =
                             [Begin(sess, "MOVE", args) EXCEPT
                                 !.pc = "movefind", !.destBox = MailboxDoc(id),
                                 !.pre = [count |-> Cardinality(MsgsIn(sess.selectedBox)
                                                                \cup MsgsIn(id)),
                                          src |-> sess.selectedBox, dest |-> id,
                                          uidNext |-> mailboxes[id].uidNext]]]
        /\ Fault(dbErr /\ sess.state = "Selected")
        /\ UNCHANGED <<storeVars, lmtp, server, indexer>>

\* handleMove: Find of the messages to move
MoveFind(s, dbErr) ==
    LET sess == imap[s]
    IN  /\ sess.pc = "movefind"
        /\ IF dbErr
           THEN imap' = [imap EXCEPT ![s].pc = "idle", ![s].destBox = NoBox,
                           ![s].out = writeResponse(@, Tag, "NO", "Database error")]
           ELSE imap' = [imap EXCEPT ![s].pc = "move",
                           ![s].cursor = Decoded(Natural(
                                            StoreFilter(sess.args.seq, sess.selectedBox)))]
        /\ Fault(dbErr)
        /\ UNCHANGED <<storeVars, lmtp, server, indexer>>

\* a $set that would change the mailbox and keep the source UID
MoveSetKeepUID(doc, destBox) == [doc EXCEPT !.mailbox = destBox.id]

\* the $set of handleMove on one message document
MoveSet(doc, destBox) == [doc EXCEPT !.mailbox = destBox.id, !.uid = NewUID(destBox)]

\* handleMove: UpdateOne {_id: msg.ID} {$set: {mailbox, uid}}; on an error
\* the loop continues
MoveUpdate(s, dbErr) ==
    LET sess == imap[s]
        msg  == Head(sess.cursor)
    IN  /\ sess.pc = "move"
        /\ sess.cursor # << >>
        /\ IF dbErr
           THEN /\ imap' = [imap EXCEPT ![s].cursor = Tail(@)]
                /\ UNCHANGED <<messages, insCount, placed>>
           ELSE IF msg.id \notin DOMAIN messages
           THEN /\ imap' = [imap EXCEPT ![s].pc = "moveinc"]
                /\ UNCHANGED <<messages, insCount, placed>>
           ELSE /\ messages' = [messages EXCEPT ![msg.id] = MoveSet(@, sess.destBox)]
                /\ insCount' = insCount + 1
                /\ placed' = PlacedLast(placed, msg.id)
                /\ imap' = [imap EXCEPT ![s].pc = "moveinc",
                              ![s].moved = Append(@, [id |-> msg.id,
                                                      uid |-> NewUID(sess.destBox)])]
        /\ Fault(dbErr)
        /\ UNCHANGED <<users, mailboxes, nextMsgId, lmtp, server, indexer>>

\* handleMove: the counter of the destination, and movedUIDs
MoveInc(s, dbErr) ==
    LET sess == imap[s]
        msg  == Head(sess.cursor)
    IN  /\ sess.pc = "moveinc"
        /\ mailboxes' = IncUIDNext(sess.destBox.id, dbErr)
        /\ imap' = [imap EXCEPT ![s].pc = "move", ![s].cursor = Tail(@),
                                ![s].destBox.uidNext = @ + 1,
                                ![s].movedUIDs = Append(@, msg.doc.uid)]
        /\ Fault(dbErr)
        /\ UNCHANGED <<users, messages, nextMsgId, insCount, placed, lmtp, server, indexer>>

\* handleMove after the loop: one EXPUNGE line per moved UID, then OK
MoveEnd(s) ==
    /\ imap[s].pc = "move"
    /\ imap[s].cursor = << >>
    /\ imap' = [imap EXCEPT ![s].pc = "idle", ![s].destBox = NoBox,
                  ![s].movedUIDs = << >>,
                  ![s].out = writeResponse(ExpungeLines(@, imap[s].movedUIDs),
                                           Tag, "OK", "MOVE completed")]
    /\ UNCHANGED <<storeVars, faults, lmtp, server, indexer>>

\* moveMessage of the API: $set of the mailbox field only
moveMessage(doc, destMailboxID) == [doc EXCEPT !.mailbox = destMailboxID]

\* UpdateMessage of the API with newMailbox set: the message is named by
\* user, mailbox, id and uid
UpdateMessage(m, destMailboxID, dbErr) ==
    /\ m \in DOMAIN messages
    /\ messages[m].user \in DOMAIN users
    /\ destMailboxID \in DOMAIN mailboxes
    /\ mailboxes[destMailboxID].user = messages[m].user
    /\ destMailboxID # messages[m].mailbox
    /\ IF dbErr THEN UNCHANGED <<messages, placed>>
       ELSE /\ messages' = [messages EXCEPT ![m] = moveMessage(@, destMailboxID)]
            /\ placed' = PlacedLast(placed, m)
    /\ Fault(dbErr)
    /\ UNCHANGED <<users, mailboxes, nextMsgId, insCount, lmtp, imap, server, indexer>>

(***************************************************************************)
(* Initial state.                                                          *)
(***************************************************************************)
Init ==
    /\ users = InitUsers
    /\ mailboxes = InitMailboxes
    /\ messages = << >>
    /\ nextMsgId = 1
    /\ insCount = 0
    /\ placed = << >>
    /\ faults = 0
    /\ lmtp = [l \in LmtpIds |-> NewLmtpSession]
    /\ imap = [s \in ImapIds |-> NewImapSession]
    /\ server = NewIMAPServer
    /\ indexer = NoIndexer

(***************************************************************************)
(* SpecLmtp: one LMTP session, every input and every error.                *)
(***************************************************************************)
LmtpStep(l) ==
    \/ Mail(l)
    \/ Reset(l)
    \/ NewSession(l)
    \/ \E to \in RcptInputs, dbErr \in MayFail : Rcpt(l, to, dbErr)
    \/ \E raw \in RawMessages, readErr \in MayFail : DataStart(l, raw, readErr)
    \/ \E dbErr \in MayFail : PMFind(l, dbErr)
    \/ \E dbErr \in MayFail : PMInbox(l, dbErr)
    \/ \E dbErr \in MayFail : PMInc(l, dbErr)
    \/ \E dbErr \in MayFail : PMInsert(l, dbErr)
    \/ \E dbErr \in MayFail : PMQuota(l, dbErr)
    \/ DataFinish(l)

NextLmtp == LmtpStep("l1")

SpecLmtp == Init /\ [][NextLmtp]_vars

\* filters a user may have: mark as seen, drop what mentions an offer, file
\* into Trash
SeenFilter ==
    [ID |-> "seen", Query |-> NoFilterQuery, Action |-> [NoFilterAction EXCEPT !.seen = TRUE]]
DropFilter ==
    [ID |-> "drop", Query |-> [NoFilterQuery EXCEPT !.Text = "offer"],
     Action |-> [NoFilterAction EXCEPT !.delete = TRUE, !.flag = TRUE, !.mailbox = "Trash"]]
FileFilter ==
    [ID |-> "file", Query |-> NoFilterQuery,
     Action |-> [NoFilterAction EXCEPT !.mailbox = "Trash"]]

\* the lists of filters a getUserFilters that reads the store may return
FilterLists ==
    { << >>, <<FileFilter>>, <<SeenFilter, DropFilter>>, <<DropFilter, SeenFilter>>,
      <<FileFilter, DropFilter, SeenFilter>> }

\* the recipients of SpecFilters
FilterRcpts == {to \in RcptInputs : to.local # "nobody"}

\* a delivery to a user with filters, without store errors
FilterDelivery(l) ==
    \/ Mail(l)
    \/ NewSession(l)
    \/ \E to \in FilterRcpts : Rcpt(l, to, FALSE)
    \/ \E raw \in RawMessages : DataStart(l, raw, FALSE)
    \/ \E userFilters \in FilterLists : PMFindWith(l, userFilters, FALSE)
    \/ PMInbox(l, FALSE)
    \/ PMInc(l, FALSE)
    \/ PMInsert(l, FALSE)
    \/ PMQuota(l, FALSE)
    \/ DataFinish(l)

\* SpecFilters: the filter loop of processMessage over every list of
\* filters
NextFilters == FilterDelivery("l1")

SpecFilters == Init /\ [][NextFilters]_vars

\* the store with any of the users disabled by the administrator
InitRcpt ==
    /\ users \in {[u \in UserIds |-> [InitUsers[u] EXCEPT !.disabled = d[u]]] :
                      d \in [UserIds -> BOOLEAN]}
    /\ mailboxes = InitMailboxes
    /\ messages = << >>
    /\ nextMsgId = 1
    /\ insCount = 0
    /\ placed = << >>
    /\ faults = 0
    /\ lmtp = [l \in LmtpIds |-> NewLmtpSession]
    /\ imap = [s \in ImapIds |-> NewImapSession]
    /\ server = NewIMAPServer
    /\ indexer = NoIndexer

\* the envelope commands of one LMTP session
RcptStep(l) ==
    \/ Mail(l)
    \/ Reset(l)
    \/ NewSession(l)
    \/ \E to \in RcptInputs, dbErr \in MayFail : Rcpt(l, to, dbErr)

\* SpecRcpt: the envelopes of two LMTP connections, every recipient and
\* every store error, with enabled and disabled users
NextRcpt ==
    \/ RcptStep("l1")
    \/ RcptStep("l2")

SpecRcpt == InitRcpt /\ [][NextRcpt]_vars

(***************************************************************************)
(* The inputs of the specifications with an IMAP session.                  *)
(***************************************************************************)
DeliveryRcpts == {[local |-> "a2", tag |-> "", upper |-> FALSE]}
DeliveryRaws == {raw \in RawMessages : raw.headers # {}}
LoginNames == {"u2"}
Passwords == {"pw"}
SelectPaths == {"INBOX", "Trash"}
DestPaths == {"Trash"}
FetchSeqs == {SeqAll, SeqNum(1)}
AppendArgs == {<<"INBOX">>, <<"INBOX", "message">>, <<"Archive", "message">>}
FetchItems == {<<TxtLowerFlags, TxtRFC822SIZE>>, <<TxtBODYPEEKHEADER>>, <<TxtBODYTEXT>>}
StoreSeqs == {SeqAll}
StoreActions == {TxtAddFlags}
StoreFlags == {{"\\Deleted"}}
ApiDests == {b \in DOMAIN mailboxes : mailboxes[b].path \in SelectPaths}

\* no LMTP connection is open
LmtpQuiet == \A l \in LmtpIds : lmtp[l] = NewLmtpSession
\* every IMAP session waits for a command, the previous one answered and read
ImapQuiet == \A s \in ImapIds : imap[s].pc = "idle" /\ Fresh(imap[s])
\* when the handlers run one at a time, a session takes a step only while
\* the others are quiet
LmtpTurn(serial) == serial => ImapQuiet
ImapTurn(serial) == serial => LmtpQuiet
ApiTurn(serial) == serial => (LmtpQuiet /\ ImapQuiet)

\* a delivery: a transaction of one recipient, errors in the two writes that
\* give the message its UID
Delivery(l, serial) ==
    \/ LmtpTurn(serial) /\ Mail(l)
    \/ LmtpTurn(serial) /\ NewSession(l)
    \/ LmtpTurn(serial) /\ \E to \in DeliveryRcpts : Rcpt(l, to, FALSE)
    \/ LmtpTurn(serial) /\ \E raw \in DeliveryRaws : DataStart(l, raw, FALSE)
    \/ LmtpTurn(serial) /\ PMFind(l, FALSE)
    \/ LmtpTurn(serial) /\ PMInbox(l, FALSE)
    \/ LmtpTurn(serial) /\ \E dbErr \in MayFail : PMInc(l, dbErr)
    \/ LmtpTurn(serial) /\ \E dbErr \in MayFail : PMInsert(l, dbErr)
    \/ LmtpTurn(serial) /\ PMQuota(l, FALSE)
    \/ LmtpTurn(serial) /\ DataFinish(l)

\* the commands that move a session between its states
SelectStep(s, serial) ==
    \/ ImapTurn(serial) /\ EmptyLine(s)
    \/ ImapTurn(serial) /\ \E u \in LoginNames, p \in Passwords : Login(s, u, p, FALSE)
    \/ ImapTurn(serial) /\ \E path \in SelectPaths : Select(s, path, FALSE)
    \/ ImapTurn(serial) /\ Close(s, FALSE)

\* the commands that change the messages of the mailboxes
MailboxStep(s, serial) ==
    \/ ImapTurn(serial) /\ \E seq \in StoreSeqs, action \in StoreActions, flagList \in StoreFlags :
                               Store(s, seq, action, flagList, FALSE)
    \/ ImapTurn(serial) /\ StoreFetch(s, FALSE)
    \/ ImapTurn(serial) /\ Expunge(s, FALSE)
    \/ ImapTurn(serial) /\ \E dbErr \in MayFail : ExpungeDelete(s, dbErr)
    \/ ImapTurn(serial) /\ \E seq \in StoreSeqs, dest \in DestPaths : Copy(s, seq, dest, FALSE)
    \/ ImapTurn(serial) /\ CopyFind(s, FALSE)
    \/ ImapTurn(serial) /\ \E dbErr \in MayFail : CopyInsert(s, dbErr)
    \/ ImapTurn(serial) /\ \E dbErr \in MayFail : CopyInc(s, dbErr)
    \/ ImapTurn(serial) /\ CopyEnd(s)
    \/ ImapTurn(serial) /\ \E seq \in StoreSeqs, dest \in DestPaths : Move(s, seq, dest, FALSE)
    \/ ImapTurn(serial) /\ MoveFind(s, FALSE)
    \/ ImapTurn(serial) /\ \E dbErr \in MayFail : MoveUpdate(s, dbErr)
    \/ ImapTurn(serial) /\ \E dbErr \in MayFail : MoveInc(s, dbErr)
    \/ ImapTurn(serial) /\ MoveEnd(s)

\* the other commands
SessionStep(s, serial) ==
    \/ ImapTurn(serial) /\ BadLine(s)
    \/ ImapTurn(serial) /\ Unknown(s)
    \/ ImapTurn(serial) /\ Noop(s)
    \/ ImapTurn(serial) /\ Logout(s)
    \/ ImapTurn(serial) /\ Connect(s)
    \/ ImapTurn(serial) /\ \E handshakeErr \in MayFail : StartTLS(s, handshakeErr)
    \/ ImapTurn(serial) /\ \E path \in SelectPaths, dbErr \in MayFail : Examine(s, path, dbErr)
    \/ ImapTurn(serial) /\ \E seq \in FetchSeqs, tokens \in FetchItems, dbErr \in MayFail :
                               Fetch(s, seq, tokens, dbErr)
    \/ ImapTurn(serial) /\ \E dbErr \in MayFail : FetchNext(s, dbErr)
    \/ ImapTurn(serial) /\ FetchEnd(s)
    \/ ImapTurn(serial) /\ \E parts \in AppendArgs, dbErr \in MayFail :
                               handleAppend(s, parts, dbErr)

\* the API moves a message
ApiStep(serial) ==
    ApiTurn(serial) /\ \E m \in DOMAIN messages, dest \in ApiDests, dbErr \in MayFail :
                           UpdateMessage(m, dest, dbErr)

(***************************************************************************)
(* Spec: deliveries to u2, one IMAP session and the API, one handler at a  *)
(* time.  The specifications after it keep the handlers of one concern.    *)
(***************************************************************************)
Next ==
    \/ Delivery("l1", TRUE)
    \/ SelectStep("i1", TRUE)
    \/ MailboxStep("i1", TRUE)
    \/ SessionStep("i1", TRUE)
    \/ ApiStep(TRUE)

Spec == Init /\ [][Next]_vars

\* SpecMailbox: deliveries and the commands that change the mailboxes
NextMailbox ==
    \/ Delivery("l1", TRUE)
    \/ SelectStep("i1", TRUE)
    \/ MailboxStep("i1", TRUE)

SpecMailbox == Init /\ [][NextMailbox]_vars

\* SpecApi: SpecMailbox and the move of the API
NextApi ==
    \/ NextMailbox
    \/ ApiStep(TRUE)

SpecApi == Init /\ [][NextApi]_vars

\* SpecSession: deliveries and the commands that leave the mailboxes alone
NextSession ==
    \/ Delivery("l1", TRUE)
    \/ SelectStep("i1", TRUE)
    \/ SessionStep("i1", TRUE)

SpecSession == Init /\ [][NextSession]_vars

\* SpecConc: two LMTP sessions delivering to u2, their store operations
\* interleaved
NextConc ==
    \/ Delivery("l1", FALSE)
    \/ Delivery("l2", FALSE)

SpecConc == Init /\ [][NextConc]_vars

\* the STORE commands a client sends in SpecStore
StoreTrySeqs == {SeqAll}
UIDStoreSets == {SeqPair(1, 2)}
StoreTryActions == {TxtAddFlags, TxtRemoveFlags, TxtAddFlagsSilent}
StoreTryFlags == {{"\\Seen"}, {"\\Deleted"}}

\* STORE and UID STORE
StoreStep(s, serial) ==
    \/ ImapTurn(serial) /\ \E seq \in StoreTrySeqs, action \in StoreTryActions,
                              flagList \in StoreTryFlags :
                               Store(s, seq, action, flagList, FALSE)
    \/ ImapTurn(serial) /\ \E dbErr \in MayFail : StoreFetch(s, dbErr)
    \/ ImapTurn(serial) /\ \E seq \in UIDStoreSets, action \in StoreTryActions,
                              flagList \in StoreTryFlags, dbErr \in MayFail :
                               UIDStore(s, seq, action, flagList, dbErr)
    \/ ImapTurn(serial) /\ \E dbErr \in MayFail : UIDStoreFetch(s, dbErr)

\* SpecStore: deliveries and one IMAP session that changes flags
NextStore ==
    \/ Delivery("l1", TRUE)
    \/ SelectStep("i1", TRUE)
    \/ StoreStep("i1", TRUE)

SpecStore == Init /\ [][NextStore]_vars

\* the mailbox commands the clients send in SpecFolders
CreatePaths == {TxtWork, TxtSent}
DeletePaths == {"INBOX", "Work"}
RenameArgs == {<<"INBOX", "Old">>, <<"Work", "Old">>, <<"Work">>}

\* CREATE, DELETE and RENAME
FolderStep(s, serial) ==
    \/ ImapTurn(serial) /\ EmptyLine(s)
    \/ ImapTurn(serial) /\ \E u \in LoginNames, p \in Passwords : Login(s, u, p, FALSE)
    \/ ImapTurn(serial) /\ \E path \in CreatePaths : Create(s, path, FALSE)
    \/ ImapTurn(serial) /\ \E now \in Times, dbErr \in MayFail : CreateInsert(s, now, dbErr)
    \/ ImapTurn(serial) /\ \E path \in DeletePaths : Delete(s, path, FALSE)
    \/ ImapTurn(serial) /\ \E dbErr \in MayFail : DeleteMessages(s, dbErr)
    \/ ImapTurn(serial) /\ DeleteBox(s, FALSE)
    \/ ImapTurn(serial) /\ \E parts \in RenameArgs : Rename(s, parts, FALSE)
    \/ ImapTurn(serial) /\ RenameUpdate(s, FALSE)

\* SpecFolders: two IMAP sessions of one user, their store operations
\* interleaved
NextFolders ==
    \/ FolderStep("i1", TRUE)
    \/ FolderStep("i2", TRUE)

SpecFolders == Init /\ [][NextFolders]_vars

\* CREATE and DELETE of one mailbox
RecreateStep(s, serial) ==
    \/ ImapTurn(serial) /\ EmptyLine(s)
    \/ ImapTurn(serial) /\ \E u \in LoginNames, p \in Passwords : Login(s, u, p, FALSE)
    \/ ImapTurn(serial) /\ Create(s, TxtWork, FALSE)
    \/ ImapTurn(serial) /\ \E now \in Times : CreateInsert(s, now, FALSE)
    \/ ImapTurn(serial) /\ Delete(s, "Work", FALSE)
    \/ ImapTurn(serial) /\ DeleteMessages(s, FALSE)
    \/ ImapTurn(serial) /\ DeleteBox(s, FALSE)

\* SpecRecreate: two sessions that create and delete the mailbox Work
NextRecreate ==
    \/ RecreateStep("i1", TRUE)
    \/ RecreateStep("i2", TRUE)

SpecRecreate == Init /\ [][NextRecreate]_vars

\* the names the clients send in SpecCreate: plain, quoted, with a trailing
\* slash, with a double slash, blank
CreateLines == {TxtWork, TxtQuotedWork, TxtWorkSlash, TxtDoubleSlash, TxtBlank}

\* CREATE with names of every shape
CreateStep(s, serial) ==
    \/ ImapTurn(serial) /\ EmptyLine(s)
    \/ ImapTurn(serial) /\ \E u \in LoginNames, p \in Passwords : Login(s, u, p, FALSE)
    \/ ImapTurn(serial) /\ \E line \in CreateLines, dbErr \in MayFail : Create(s, line, dbErr)
    \/ ImapTurn(serial) /\ \E now \in Times, dbErr \in MayFail : CreateInsert(s, now, dbErr)

\* SpecCreate: two IMAP sessions sending CREATE
NextCreate ==
    \/ CreateStep("i1", TRUE)
    \/ CreateStep("i2", TRUE)

SpecCreate == Init /\ [][NextCreate]_vars

\* deliveries without store errors
PlainDelivery(l, serial) ==
    \/ LmtpTurn(serial) /\ Mail(l)
    \/ LmtpTurn(serial) /\ NewSession(l)
    \/ LmtpTurn(serial) /\ \E to \in DeliveryRcpts : Rcpt(l, to, FALSE)
    \/ LmtpTurn(serial) /\ \E raw \in DeliveryRaws : DataStart(l, raw, FALSE)
    \/ LmtpTurn(serial) /\ PMFind(l, FALSE)
    \/ LmtpTurn(serial) /\ PMInbox(l, FALSE)
    \/ LmtpTurn(serial) /\ PMInc(l, FALSE)
    \/ LmtpTurn(serial) /\ PMInsert(l, FALSE)
    \/ LmtpTurn(serial) /\ PMQuota(l, FALSE)
    \/ LmtpTurn(serial) /\ DataFinish(l)

\* the reader of SpecRace: LOGIN, SELECT and FETCH
ReaderStep(s, serial) ==
    \/ ImapTurn(serial) /\ EmptyLine(s)
    \/ ImapTurn(serial) /\ \E u \in LoginNames, p \in Passwords : Login(s, u, p, FALSE)
    \/ ImapTurn(serial) /\ Select(s, "INBOX", FALSE)
    \/ ImapTurn(serial) /\ Fetch(s, SeqAll, <<TxtBODYPEEKHEADER>>, FALSE)
    \/ ImapTurn(serial) /\ FetchNext(s, FALSE)
    \/ ImapTurn(serial) /\ FetchEnd(s)

\* the other session of SpecRace: LOGIN, SELECT, STORE and EXPUNGE
ExpungerStep(s, serial) ==
    \/ ImapTurn(serial) /\ EmptyLine(s)
    \/ ImapTurn(serial) /\ \E u \in LoginNames, p \in Passwords : Login(s, u, p, FALSE)
    \/ ImapTurn(serial) /\ Select(s, "INBOX", FALSE)
    \/ ImapTurn(serial) /\ \E flagList \in StoreFlags :
                               Store(s, SeqAll, TxtAddFlagsSilent, flagList, FALSE)
    \/ ImapTurn(serial) /\ Expunge(s, FALSE)
    \/ ImapTurn(serial) /\ ExpungeDelete(s, FALSE)

\* SpecRace: a session that fetches and a session that expunges, their
\* store operations interleaved, and deliveries between their commands
NextRace ==
    \/ PlainDelivery("l1", TRUE)
    \/ ReaderStep("i1", TRUE)
    \/ ExpungerStep("i2", TRUE)

SpecRace == Init /\ [][NextRace]_vars

\* the items the client fetches in SpecSeen
BodyItems == {<<TxtBODY>>, <<TxtBODYHEADER>>, <<TxtBODYTEXT>>, <<TxtBODYPEEKTEXT>>}

\* LOGIN, SELECT and FETCH of body content
SeenStep(s, serial) ==
    \/ ImapTurn(serial) /\ EmptyLine(s)
    \/ ImapTurn(serial) /\ \E u \in LoginNames, p \in Passwords : Login(s, u, p, FALSE)
    \/ ImapTurn(serial) /\ Select(s, "INBOX", FALSE)
    \/ ImapTurn(serial) /\ \E tokens \in BodyItems : Fetch(s, SeqAll, tokens, FALSE)
    \/ ImapTurn(serial) /\ FetchNext(s, FALSE)
    \/ ImapTurn(serial) /\ FetchEnd(s)

\* SpecSeen: deliveries and one session that fetches body content
NextSeen ==
    \/ PlainDelivery("l1", TRUE)
    \/ SeenStep("i1", TRUE)

SpecSeen == Init /\ [][NextSeen]_vars

\* the UID lines the client sends in SpecUid
UIDSubs == {<< >>, TxtMOVE, TxtLowerMove}

\* UID MOVE next to MOVE
UidStep(s, serial) ==
    \/ ImapTurn(serial) /\ \E sub \in UIDSubs, seq \in FetchSeqs, dest \in DestPaths :
                               UID(s, sub, seq, dest)
    \/ ImapTurn(serial) /\ \E seq \in FetchSeqs, dest \in DestPaths : Move(s, seq, dest, FALSE)
    \/ ImapTurn(serial) /\ MoveFind(s, FALSE)
    \/ ImapTurn(serial) /\ MoveUpdate(s, FALSE)
    \/ ImapTurn(serial) /\ MoveInc(s, FALSE)
    \/ ImapTurn(serial) /\ MoveEnd(s)

\* SpecUid: deliveries and one session that selects and moves
NextUid ==
    \/ PlainDelivery("l1", TRUE)
    \/ SelectStep("i1", TRUE)
    \/ UidStep("i1", TRUE)

SpecUid == Init /\ [][NextUid]_vars

\* the session of SpecShutdown, while its transport is open
LiveStep(s, serial) ==
    \/ Live(s) /\ ImapTurn(serial) /\ EmptyLine(s)
    \/ Live(s) /\ ImapTurn(serial) /\ \E u \in LoginNames, p \in Passwords :
                                          Login(s, u, p, FALSE)
    \/ Live(s) /\ ImapTurn(serial) /\ Select(s, "INBOX", FALSE)
    \/ Live(s) /\ ImapTurn(serial) /\ \E tokens \in FetchItems :
                                          Fetch(s, SeqAll, tokens, FALSE)
    \/ Live(s) /\ ImapTurn(serial) /\ FetchNext(s, FALSE)
    \/ Live(s) /\ ImapTurn(serial) /\ FetchEnd(s)
    \/ Live(s) /\ ImapTurn(serial) /\ Logout(s)
    \/ Live(s) /\ ImapTurn(serial) /\ Connect(s)
    \/ \E dbErr \in MayFail : Cut(s, dbErr)

\* main and Shutdown
ShutdownStep ==
    \/ ShutdownStart
    \/ ShutdownSessions
    \/ Expire
    \/ ShutdownReturn

\* SpecShutdown: deliveries, two IMAP sessions that fetch, and the server
\* shut down at any moment
NextShutdown ==
    \/ PlainDelivery("l1", TRUE)
    \/ LiveStep("i1", TRUE)
    \/ LiveStep("i2", TRUE)
    \/ ShutdownStep

SpecShutdown == Init /\ [][NextShutdown]_vars

(***************************************************************************)
(* LMTP claims.                                                            *)
(***************************************************************************)
\* Session.Data has run its loop over s.users and returned
DataDone(l) ==
    /\ lmtp[l].pc = "idle"
    /\ lmtp[l].last = "DATA"
    /\ lmtp[l].i > Len(lmtp[l].users)

\* the status recipient k of the transaction is answered with: Session.Data
\* returns one status, which is all any recipient gets
StatusFor(l, k) ==
    IF k <= Len(lmtp[l].reply) THEN lmtp[l].reply[k]
    ELSE lmtp[l].reply[Len(lmtp[l].reply)]

C5_IndividualOutcome ==
    \A l \in LmtpIds :
        DataDone(l) =>
            \A k \in 1..Len(lmtp[l].responses) :
                /\ lmtp[l].responses[k] = "err" => StatusFor(l, k) >= 400
                /\ lmtp[l].responses[k] = "ok"  => StatusFor(l, k) = 250

\* C6: when Session.Data returns, every accepted recipient has been
\* processed, in acceptance order, and each recipient whose own delivery did
\* not fail has its message in the store, whatever happened to the others.
C6_FailureDoesNotBlock ==
    \A l \in LmtpIds :
        DataDone(l) =>
            /\ Len(lmtp[l].responses) = Len(lmtp[l].users)
            /\ Len(lmtp[l].stored) = Len(lmtp[l].users)
            /\ \A k \in 1..Len(lmtp[l].users) :
                  lmtp[l].responses[k] = "ok" =>
                    /\ lmtp[l].stored[k] \in DOMAIN messages
                    /\ messages[lmtp[l].stored[k]].user = lmtp[l].users[k].User
                    /\ messages[lmtp[l].stored[k]].rcpt = lmtp[l].users[k].Recipient
            /\ \A j, k \in 1..Len(lmtp[l].users) :
                  (j < k /\ lmtp[l].responses[j] = "ok" /\ lmtp[l].responses[k] = "ok")
                    => lmtp[l].stored[j] < lmtp[l].stored[k]

\* a transaction whose first recipient failed in the store and whose second
\* recipient was delivered all the same
C6_Witness ==
    \E l \in LmtpIds :
        /\ DataDone(l)
        /\ Len(lmtp[l].users) = 2
        /\ lmtp[l].responses = <<"err", "ok">>
        /\ lmtp[l].stored[2] \in DOMAIN messages

(***************************************************************************)
(* UID claims.                                                             *)
(***************************************************************************)
\* no handler is between two of its store operations
Settled ==
    /\ \A l \in LmtpIds : lmtp[l].pc = "idle"
    /\ \A s \in ImapIds : imap[s].pc \in {"idle", "closed"}

\* C1: whatever the interleaving of the operations that insert into a
\* mailbox, the mailbox never holds two messages with equal UID.
C1_DistinctUIDs ==
    \A a, b \in DOMAIN messages :
        (a # b /\ messages[a].mailbox = messages[b].mailbox)
            => messages[a].uid # messages[b].uid

\* C2: for every two messages A, B of a mailbox with A placed there before
\* B (by a delivery, COPY, MOVE or the move of the API), UID(A) < UID(B).
C2_IncreasingByInsertion ==
    \A a, b \in DOMAIN messages :
        (messages[a].mailbox = messages[b].mailbox /\ PlacedBefore(a, b))
            => messages[a].uid < messages[b].uid

\* C3: after any delivery, COPY, MOVE, EXPUNGE or CLOSE, also one whose
\* insert failed, every non-empty mailbox has UIDNext = largest UID + 1.
C3_UIDNextIsMaxPlusOne ==
    Settled =>
        \A b \in DOMAIN mailboxes :
            MsgsIn(b) # {} => mailboxes[b].uidNext = MaxOf(UidsIn(b)) + 1

\* a MOVE of session s ran to its end, from one mailbox to another
MoveDone(s) ==
    /\ imap[s].pc = "idle"
    /\ imap[s].cmd = "MOVE"
    /\ imap[s].pre.dest # 0
    /\ imap[s].pre.dest # imap[s].pre.src
    /\ imap[s].out # << >>
    /\ imap[s].out[Len(imap[s].out)].status = "OK"

NotValid(sess, command) ==
    \/ command \in {"SELECT", "EXAMINE"} /\ ~sess.authenticated
    \/ command \in {"FETCH", "STORE", "COPY", "MOVE", "EXPUNGE", "CLOSE"}
       /\ sess.state # "Selected"
    \/ command = "LOGIN" /\ sess.authenticated

\* what a tagged BAD and nothing else looks like
OnlyTaggedBad(out) ==
    Len(out) = 1 /\ out[1].tag = Tag /\ out[1].status = "BAD"

\* C7: a command that is not valid in the state of its session is answered
\* with a tagged BAD and changes neither the session state nor the store.
C7_InvalidAnsweredBad ==
    [][\A s \in ImapIds :
          (/\ imap[s].pc = "idle"
           /\ imap'[s] # imap[s]
           /\ imap'[s].cmd # ""
           /\ NotValid(imap[s], imap'[s].cmd))
          => /\ imap'[s].pc = "idle"
             /\ OnlyTaggedBad(imap'[s].out)
             /\ imap'[s].state = imap[s].state
             /\ imap'[s].authenticated = imap[s].authenticated
             /\ imap'[s].selectedBox = imap[s].selectedBox
             /\ UNCHANGED <<users, mailboxes, messages>>]_vars

\* C8: in what a session writes for a command, every untagged response
\* comes before the tagged completion.
C8_UntaggedBeforeTagged ==
    \A s \in ImapIds :
        \A i, j \in 1..Len(imap[s].out) :
            (i < j /\ imap[s].out[i].tag # "*") => imap[s].out[j].tag # "*"

\* the flags of a message document
FlagsOf(doc) == <<doc.seen, doc.answered, doc.flagged, doc.deleted, doc.draft>>

\* the items ask for BODY.PEEK sections and metadata only
MetadataItems ==
    {TxtUID, TxtFLAGS, TxtINTERNALDATE, TxtRFC822SIZE, TxtENVELOPE, TxtBODYSTRUCTURE}
PeekOrMetadata(tokens) ==
    \A k \in 1..Len(tokens) :
        ToUpper(tokens[k]) \in MetadataItems \/ HasPrefix(ToUpper(tokens[k]), TxtBODYPEEK)

\* C9: a FETCH that asks for BODY.PEEK sections and metadata only changes
\* no flag of any message.
C9_PeekChangesNoFlag ==
    [][\A s \in ImapIds :
          (imap[s].cmd = "FETCH" /\ imap[s].pc = "fetch"
           /\ PeekOrMetadata(imap[s].args.items))
          => \A m \in DOMAIN messages :
                m \in DOMAIN messages' /\ FlagsOf(messages'[m]) = FlagsOf(messages[m])]_vars

(***************************************************************************)
(* EXPUNGE and the EXPUNGE lines of MOVE.                                  *)
(***************************************************************************)
\* the sequence number of message m among the messages S of a mailbox: its
\* position in the ascending UID list
SeqNumOf(S, m) == Cardinality({x \in S : messages[x].uid <= messages[m].uid})

\* the step of session s that completes an EXPUNGE with a tagged OK
ExpungeCompletes(s) ==
    /\ imap[s].pc = "expunge"
    /\ imap'[s].pc = "idle"
    /\ imap'[s].out[Len(imap'[s].out)].status = "OK"

\* C11: EXPUNGE removes exactly the messages of the selected mailbox that
\* carry \Deleted and writes one EXPUNGE line per removed message, in
\* ascending order of the sequence numbers before the command, the k-th line
\* carrying the message's sequence number less the k-1 lines already sent.
C11_ExpungeRenumbers ==
    [][\A s \in ImapIds :
         ExpungeCompletes(s) =>
            LET before == MsgsIn(imap[s].selectedBox)
                gone   == {m \in before : messages[m].deleted}
                order  == SortedByUID(gone)
                out    == imap'[s].out
            IN  /\ DOMAIN messages' = DOMAIN messages \ gone
                /\ Len(out) = Cardinality(gone) + 1
                /\ \A k \in 1..Len(order) :
                      /\ out[k].tag = "*"
                      /\ out[k].text = "EXPUNGE"
                      /\ out[k].n = SeqNumOf(before, order[k]) - (k - 1)]_vars

\* the step of session s that ends a MOVE out of the selected mailbox into
\* another one
MoveCompletes(s) ==
    /\ imap[s].pc = "move"
    /\ imap[s].cursor = << >>
    /\ imap'[s].pc = "idle"
    /\ imap[s].pre.dest # imap[s].pre.src

\* C12: MOVE writes one EXPUNGE line per message removed from the source,
\* each carrying that message's sequence number in the source before the
\* command, the lines in descending order of that number.
C12_MoveExpungeDescending ==
    [][\A s \in ImapIds :
         MoveCompletes(s) =>
            LET old    == imap[s].movedUIDs
                before == UidsIn(imap[s].pre.src) \cup {old[k] : k \in 1..Len(old)}
                seq(u) == Cardinality({x \in before : x <= u})
                out    == imap'[s].out
            IN  /\ Len(out) = Len(old) + 1
                /\ \A k \in 1..Len(old) :
                      /\ out[k].text = "EXPUNGE"
                      /\ out[k].n = seq(old[k])
                      /\ \A j \in 1..(k - 1) : seq(old[j]) > seq(old[k])]_vars

(***************************************************************************)
(* STORE.                                                                  *)
(***************************************************************************)
\* the field of a message document that holds a system flag
FlagField(flag) ==
    CASE flag = "\\Seen" -> "seen"
      [] flag = "\\Answered" -> "answered"
      [] flag = "\\Flagged" -> "flagged"
      [] flag = "\\Deleted" -> "deleted"
      [] flag = "\\Draft" -> "draft"

\* the step in which session s runs the update of a STORE or UID STORE
StoreApplies(s) ==
    /\ imap[s].pc = "idle"
    /\ imap'[s] # imap[s]
    /\ imap'[s].cmd \in {"STORE", "UID STORE"}
    /\ \/ imap'[s].pc \in {"store", "uidstore"}
       \/ imap'[s].out[Len(imap'[s].out)].status = "OK"

\* C13: STORE and UID STORE with +FLAGS set the listed flags, with -FLAGS
\* clear the listed flags, and in both cases leave every flag that is not
\* listed as it was, on every message.
C13_StoreChangesListedOnly ==
    [][\A s \in ImapIds :
         (StoreApplies(s) /\ (\/ HasPrefix(imap'[s].args.action, TxtAddFlags)
                              \/ HasPrefix(imap'[s].args.action, TxtRemoveFlags)))
         => LET a      == imap'[s].args
                listed == {FlagField(f) : f \in a.flags}
                add    == HasPrefix(a.action, TxtAddFlags)
            IN  \A m \in DOMAIN messages :
                   /\ \A f \in FlagNames \ listed : messages'[m][f] = messages[m][f]
                   /\ (a.seq.kind = "all" /\ m \in MsgsIn(imap[s].selectedBox))
                         => \A f \in listed : messages'[m][f] = add]_vars

(***************************************************************************)
(* Sequence numbers and UIDs.                                              *)
(***************************************************************************)
\* session s has completed a FETCH (without the UID prefix) with a tagged OK
FetchDone(s) ==
    /\ imap[s].pc = "idle"
    /\ imap[s].cmd = "FETCH"
    /\ imap[s].out # << >>
    /\ imap[s].out[Len(imap[s].out)].status = "OK"

\* C14: the message numbers of FETCH without the UID prefix are sequence
\* numbers, positions in the UID list of the selected mailbox: a FETCH
\* response carries a number no greater than the number of messages of the
\* mailbox, and FETCH n answers with number n.
C14_SequenceNumbers ==
    \A s \in ImapIds :
        FetchDone(s) =>
            \A k \in 1..(Len(imap[s].out) - 1) :
               /\ imap[s].out[k].text = "FETCH"
               /\ imap[s].out[k].n \in 1..Cardinality(MsgsIn(imap[s].selectedBox))
               /\ imap[s].args.seq.kind = "num" => imap[s].out[k].n = imap[s].args.seq.a

(***************************************************************************)
(* APPEND.                                                                 *)
(***************************************************************************)
\* the step in which session s, authenticated, is answered an APPEND of a
\* message to a mailbox its user has
AppendAnswered(s) ==
    /\ imap[s].pc = "idle"
    /\ imap[s].authenticated
    /\ imap'[s] # imap[s]
    /\ imap'[s].cmd = "APPEND"
    /\ MailboxByPath(imap[s].user, imap'[s].args.dest) # {}
    /\ imap'[s].out[1].text # "APPEND expects mailbox and message"
    /\ faults' = faults

\* C15: APPEND to a mailbox the authenticated user has stores one new
\* message in that mailbox, under the UID the mailbox's counter held, and is
\* answered with a tagged OK.
C15_AppendStores ==
    [][\A s \in ImapIds :
         AppendAnswered(s) =>
            \E b \in MailboxByPath(imap[s].user, imap'[s].args.dest) :
               /\ imap'[s].out[Len(imap'[s].out)].status = "OK"
               /\ \E m \in DOMAIN messages' \ DOMAIN messages :
                     /\ messages'[m].mailbox = b
                     /\ messages'[m].uid = mailboxes[b].uidNext]_vars

(***************************************************************************)
(* LOGOUT.                                                                 *)
(***************************************************************************)
\* C16: LOGOUT is answered with the untagged BYE and then the tagged OK,
\* after which the connection is closed; a session in Logout processes and
\* answers no further command: the only step left to its slot is the next
\* connection.
C16_LogoutIsTerminal ==
    [][\A s \in ImapIds :
         /\ (imap[s].pc = "idle" /\ imap'[s].cmd = "LOGOUT" /\ imap'[s] # imap[s])
               => imap'[s].state = "Logout"
         /\ imap[s].state = "Logout"
               => /\ imap[s].pc = "closed"
                  /\ Len(imap[s].out) = 2
                  /\ imap[s].out[1].tag = "*" /\ imap[s].out[1].text = "BYE"
                  /\ imap[s].out[2].tag = Tag /\ imap[s].out[2].status = "OK"
                  /\ imap'[s] \in {imap[s], NewImapSession}]_vars

\* a session that logged out with a mailbox selected
C16_Witness ==
    \E s \in ImapIds :
        /\ imap[s].state = "Logout"
        /\ imap[s].authenticated
        /\ imap[s].selectedBox # 0

(***************************************************************************)
(* Mailbox names.                                                          *)
(***************************************************************************)
\* C17: no user has two mailboxes with the same path, also when CREATE and
\* RENAME of several sessions of the user run concurrently.
C17_PathUnique ==
    \A a, b \in Mailboxes :
        (mailboxes[a].user = mailboxes[b].user /\ mailboxes[a].path = mailboxes[b].path)
            => a = b

\* the path a DELETE or RENAME of session s is aimed at, in the step that
\* reads the command
TargetPath(s) ==
    IF imap'[s].cmd = "DELETE" THEN imap'[s].args.dest ELSE imap'[s].args.src

\* the step in which session s, authenticated, reads a DELETE or RENAME aimed
\* at its user's INBOX or at one of its special-use mailboxes
AimsAtProtected(s) ==
    /\ imap[s].pc = "idle"
    /\ imap[s].authenticated
    /\ imap'[s] # imap[s]
    /\ imap'[s].cmd \in {"DELETE", "RENAME"}
    /\ \E id \in MailboxByPath(imap[s].user, TargetPath(s)) :
          mailboxes[id].path = "INBOX" \/ mailboxes[id].specialUse # ""

\* C20: a DELETE or RENAME aimed at INBOX or at a special-use mailbox is
\* answered NO at once and changes no mailbox and no message, and a user
\* who has an INBOX keeps it.
C20_ProtectedMailboxes ==
    [][/\ \A s \in ImapIds :
             AimsAtProtected(s) =>
                /\ imap'[s].pc = "idle"
                /\ imap'[s].out[Len(imap'[s].out)].status = "NO"
                /\ mailboxes' = mailboxes
                /\ messages' = messages
       /\ \A u \in UserIds :
             MailboxByPath(u, "INBOX") # {} => MailboxByPath(u, "INBOX")' # {}]_vars

C19_TwoPhaseShutdown ==
    [][\A s \in ImapIds :
         /\ (server.quit /\ imap[s].pc = "closed") => imap'[s].pc = "closed"
         /\ (Live(s) /\ ~Live(s)')
               => /\ server.listener = "closed"
                  /\ imap[s].pc \in {"idle", "closed"} \/ server.expired]_vars

\* the text of the path has a double slash or ends in a slash
InvalidPath(path) ==
    Contains(PathText(path), <<"/", "/">>) \/ HasSuffix(PathText(path), <<"/">>)

\* C21: a CREATE whose path contains "//" or ends in "/" is answered NO or
\* BAD at once, and no mailbox ever has such a path.
C21_CreateRejectsBadPath ==
    /\ \A s \in ImapIds :
          (imap[s].cmd = "CREATE" /\ imap[s].authenticated /\ InvalidPath(imap[s].args.dest))
             => /\ imap[s].pc = "idle"
                /\ imap[s].out[Len(imap[s].out)].status \in {"NO", "BAD"}
    /\ \A id \in Mailboxes : ~InvalidPath(mailboxes[id].path)

(***************************************************************************)
(* FETCH and the flag \Seen.                                               *)
(***************************************************************************)
\* the items ask for body content without PEEK
BodyContent(tokens) ==
    \E k \in 1..Len(tokens) : ToUpper(tokens[k]) \in {TxtBODY, TxtBODYHEADER, TxtBODYTEXT}

\* C22: the step of a FETCH of BODY[], BODY[HEADER] or BODY[TEXT] that
\* answers for one message leaves that message with \Seen set and changes no
\* other flag of any message.
C22_BodyFetchSetsSeen ==
    [][\A s \in ImapIds :
          (/\ imap[s].cmd = "FETCH" /\ imap[s].pc = "fetch"
           /\ imap[s].cursor # << >>
           /\ imap'[s].cursor = Tail(imap[s].cursor)
           /\ BodyContent(imap[s].args.items))
          => LET id == Head(imap[s].cursor).id
             IN  \A m \in DOMAIN messages :
                    /\ m \in DOMAIN messages'
                    /\ FlagsOf(messages'[m]) =
                          [FlagsOf(messages[m]) EXCEPT ![1] = (@ \/ m = id)]]_vars

(***************************************************************************)
(* UID MOVE.                                                               *)
(***************************************************************************)
\* the step in which session s, with a mailbox selected, reads a UID MOVE of
\* a message that is in the selected mailbox to a mailbox of its user
UidMoveOfExisting(s) ==
    /\ imap[s].pc = "idle"
    /\ imap[s].state = "Selected"
    /\ imap'[s] # imap[s]
    /\ imap'[s].cmd = "UID"
    /\ imap'[s].args.action = TxtMOVE
    /\ \E m \in MsgsIn(imap[s].selectedBox) : messages[m].uid = imap'[s].args.seq.a
    /\ MailboxByPath(imap[s].user, imap'[s].args.dest) # {}

\* C23: a UID MOVE of a message of the selected mailbox to an existing
\* mailbox is not refused: it either goes on to move the message or has
\* written an untagged EXPUNGE followed by a tagged OK.
C23_UidMoveSucceeds ==
    [][\A s \in ImapIds :
          UidMoveOfExisting(s) =>
             \/ imap'[s].pc # "idle"
             \/ LET out == imap'[s].out
                IN  /\ Len(out) >= 2
                    /\ out[Len(out)].tag = Tag /\ out[Len(out)].status = "OK"
                    /\ \E k \in 1..(Len(out) - 1) :
                          out[k].tag = "*" /\ out[k].text = "EXPUNGE"]_vars

(***************************************************************************)
(* SELECT and EXAMINE.                                                     *)
(***************************************************************************)
\* session s has been answered a SELECT or EXAMINE that opened a mailbox
SelectSucceeded(s) ==
    /\ imap[s].pc = "idle"
    /\ imap[s].cmd \in {"SELECT", "EXAMINE"}
    /\ imap[s].out # << >>
    /\ imap[s].out[1].text = "EXISTS"

\* the untagged responses of SELECT, in the order they are written
SelectUntagged ==
    <<"EXISTS", "RECENT", "FLAGS", "OK [PERMANENTFLAGS]", "OK [UIDNEXT]", "OK [UIDVALIDITY]">>

\* the response code of a tagged completion
ResponseCode(text) ==
    CASE text = "[READ-WRITE] SELECT completed" -> "READ-WRITE"
      [] text = "[READ-ONLY] EXAMINE completed" -> "READ-ONLY"
      [] OTHER -> ""

\* C24: what a successful SELECT or EXAMINE writes is the six untagged
\* responses followed by the tagged OK, whose response code is READ-WRITE
\* after SELECT and READ-ONLY after EXAMINE.
C24_SelectResponses ==
    \A s \in ImapIds :
        SelectSucceeded(s) =>
            LET out == imap[s].out
                n   == Len(SelectUntagged)
            IN  /\ Len(out) = n + 1
                /\ \A k \in 1..n : out[k].tag = "*" /\ out[k].text = SelectUntagged[k]
                /\ out[n + 1].tag = Tag
                /\ out[n + 1].status = "OK"
                /\ ResponseCode(out[n + 1].text) =
                      (IF imap[s].cmd = "SELECT" THEN "READ-WRITE" ELSE "READ-ONLY")

(***************************************************************************)
(* RCPT TO.                                                                *)
(***************************************************************************)
\* the step in which LMTP session l answers a RCPT TO
RcptAnswered(l) ==
    /\ lmtp[l].pc = "idle"
    /\ lmtp[l].last \in {"MAIL", "RCPT"}
    /\ lmtp'[l].last = "RCPT"
    /\ lmtp'[l] # lmtp[l]

\* the users whose address is the recipient without its tag, in lower case,
\* and who are not disabled
Resolves(to) ==
    {a.user : a \in {x \in addresses :
                        /\ x.address.local = to.local
                        /\ x.address.tag = "" /\ ~x.address.upper
                        /\ x.user \in DOMAIN users
                        /\ ~users[x.user].disabled}}

FiltersEvaluated(l) ==
    /\ lmtp[l].pc = "proc"
    /\ lmtp[l].i <= Len(lmtp[l].users)
    /\ lmtp'[l] # lmtp[l]

\* the positions of the filters of that step that match the message
Matching(l) ==
    LET sess == lmtp[l]
    IN  {j \in 1..Len(lmtp'[l].filters) :
            matchesFilter(lmtp'[l].filters[j], sess.raw, DeliveredSize(sess))}

\* the positions of the matching filters that request delete
Deleting(l) == {j \in Matching(l) : lmtp'[l].filters[j].Action.delete}

\* the positions before k, and k itself, whose filter names a mailbox
Naming(l, k) ==
    {j \in Matching(l) :
        \/ j <= k /\ lmtp'[l].filters[j].Action.spam
        \/ j < k /\ lmtp'[l].filters[j].Action.mailbox # ""}

\* C26: when a matching filter requests delete, the evaluation ends with the
\* first such filter: the flags and the target mailbox are those of the
\* filters up to it, and nothing is stored for the recipient.
C26_DeleteIsTerminal ==
    [][\A l \in LmtpIds :
          (FiltersEvaluated(l) /\ Deleting(l) # {}) =>
             LET k    == MinOf(Deleting(l))
                 fs   == lmtp'[l].filters
                 plan == lmtp'[l].plan
                 upTo == {j \in Matching(l) : j <= k}
             IN  /\ plan.deleteMessage
                 /\ Len(plan.flags) = Cardinality({j \in upTo : fs[j].Action.seen})
                                      + Cardinality({j \in upTo : fs[j].Action.flag})
                 /\ plan.mailboxPath =
                       (IF Naming(l, k) = {} THEN "INBOX"
                        ELSE LET j == MaxOf(Naming(l, k))
                             IN  IF j < k /\ fs[j].Action.mailbox # ""
                                 THEN fs[j].Action.mailbox ELSE "Junk")
                 /\ lmtp'[l].pc = "proc"
                 /\ lmtp'[l].i = lmtp[l].i + 1
                 /\ lmtp'[l].responses = Append(lmtp[l].responses, "ok")
                 /\ lmtp'[l].stored = Append(lmtp[l].stored, 0)
                 /\ messages' = messages /\ mailboxes' = mailboxes]_vars

\* a message was dropped by a filter that had filters before and after it
C26_Witness ==
    \E l \in LmtpIds :
        /\ lmtp[l].plan.deleteMessage
        /\ lmtp[l].plan.flags = <<"\\Seen", "\\Flagged">>
        /\ Len(lmtp[l].filters) = 3
        /\ lmtp[l].filters[2].Action.delete
        /\ lmtp[l].filters[3].Action.spam
        /\ lmtp[l].stored # << >>
        /\ lmtp[l].stored[Len(lmtp[l].stored)] = 0

(***************************************************************************)
(* Spam.                                                                   *)
(***************************************************************************)
\* the message carries the configured spam header with the value yes
IsSpam(raw) == <<SpamHeader, "yes">> \in raw.headers

\* session l is in processMessage for a recipient, with a spam message
DeliversSpam(l) ==
    /\ lmtp[l].pc \in {"proc", "inbox", "inc", "insert", "quota"}
    /\ lmtp[l].i <= Len(lmtp[l].users)
    /\ IsSpam(lmtp[l].raw)

\* C27: a message with the spam header is stored in the recipient's \Junk
\* mailbox, and no step of its delivery changes the recipient's INBOX or the
\* messages in it; if the recipient has no \Junk mailbox it is stored in
\* INBOX.
C27_SpamToJunk ==
    [][\A l \in LmtpIds :
          DeliversSpam(l) =>
             LET u     == lmtp[l].users[lmtp[l].i].User
                 junk  == MailboxBySpecialUse(u, "\\Junk")
                 inbox == MailboxByPath(u, "INBOX")
             IN  /\ (lmtp[l].pc = "insert" /\ lmtp'[l].pc = "quota") =>
                       /\ nextMsgId \in DOMAIN messages'
                       /\ messages'[nextMsgId].user = u
                       /\ messages'[nextMsgId].mailbox \in (IF junk # {} THEN junk ELSE inbox)
                 /\ junk # {} =>
                       \A b \in inbox :
                          /\ mailboxes'[b] = mailboxes[b]
                          /\ {m \in DOMAIN messages' : messages'[m].mailbox = b} = MsgsIn(b)]_vars

\* one spam message has been stored in the \Junk mailbox of one recipient
\* and in the INBOX of another, who has no \Junk mailbox
C27_Witness ==
    \E l \in LmtpIds :
        /\ IsSpam(lmtp[l].raw)
        /\ \E a, b \in DOMAIN messages :
              /\ contains(lmtp[l].stored, a) /\ contains(lmtp[l].stored, b)
              /\ messages[a].mailbox \in MailboxBySpecialUse(messages[a].user, "\\Junk")
              /\ MailboxBySpecialUse(messages[b].user, "\\Junk") = {}
              /\ messages[b].mailbox \in MailboxByPath(messages[b].user, "INBOX")

(***************************************************************************)
(* Protocol-syntax errors.                                                 *)
(***************************************************************************)
\* the step in which session s reads a line that is not a command: a line
\* of fewer than two words, or a command processCommand does not know
SyntaxErrorRead(s) ==
    /\ imap[s].pc = "idle"
    /\ imap'[s] # imap[s]
    /\ imap'[s].cmd \in {"", "XYZZY"}
    /\ imap'[s].out # << >>

\* C28: a malformed line or an unknown command is answered with one tagged
\* BAD; the session keeps its state and its selected mailbox and waits for
\* the next command, and the store is unchanged.
C28_SyntaxErrorTaggedBad ==
    [][\A s \in ImapIds :
          SyntaxErrorRead(s) =>
             /\ OnlyTaggedBad(imap'[s].out)
             /\ imap'[s].pc = "idle"
             /\ imap'[s].state = imap[s].state
             /\ imap'[s].authenticated = imap[s].authenticated
             /\ imap'[s].selectedBox = imap[s].selectedBox
             /\ UNCHANGED storeVars]_vars

(***************************************************************************)
(* UIDValidity.                                                            *)
(***************************************************************************)
\* session s has deleted a mailbox and has not read its next command: the
\* mailbox it deleted
HasDeleted(s) ==
    /\ imap[s].cmd = "DELETE"
    /\ imap[s].pc = "idle"
    /\ imap[s].out # << >>
    /\ imap[s].out[Len(imap[s].out)].status = "OK"

\* C29: a mailbox created at the path of a mailbox its user has just deleted
\* has a UIDValidity different from that of the deleted mailbox.
C29_UIDValidityChanges ==
    [][\A id \in DOMAIN mailboxes' \ DOMAIN mailboxes :
          \A s \in ImapIds :
             (/\ HasDeleted(s)
              /\ imap[s].user = mailboxes'[id].user
              /\ imap[s].destBox.path = mailboxes'[id].path)
             => mailboxes'[id].uidValidity # imap[s].destBox.uidValidity]_vars

(***************************************************************************)
(* ModifyIndex.                                                            *)
(***************************************************************************)
\* what a client sees of the messages of mailbox b: their UIDs and flags
Visible(b) == {<<m, messages[m].uid, FlagsOf(messages[m])>> : m \in MsgsIn(b)}

\* the step is the InsertOne of a delivery; the UpdateOne before it has
\* allocated the UID and bumped the ModifyIndex
DeliveryInsert ==
    \E l \in LmtpIds : lmtp[l].pc = "insert" /\ lmtp'[l].pc = "quota"

\* C30: the ModifyIndex of a mailbox never decreases; it increases in every
\* step that allocates a UID of the mailbox, and in every step of a command
\* that changes the messages, UIDs or flags seen through the mailbox.
C30_ModifyIndexBumped ==
    [][\A b \in Mailboxes :
          mailboxes'[b] # NoMailbox =>
             /\ mailboxes'[b].modifyIndex >= mailboxes[b].modifyIndex
             /\ mailboxes'[b].uidNext # mailboxes[b].uidNext
                   => mailboxes'[b].modifyIndex > mailboxes[b].modifyIndex
             /\ (Visible(b)' # Visible(b) /\ ~DeliveryInsert)
                   => mailboxes'[b].modifyIndex > mailboxes[b].modifyIndex]_vars

(***************************************************************************)
(* The MIME parser and the BODYSTRUCTURE builder (package indexer).  A     *)
(* header value is given as the parts strings.Split(headerValue, ";")      *)
(* yields: the first is the media type, each other one a key and a value   *)
(* as strings.SplitN(part, "=", 2) yields them.                            *)
(***************************************************************************)
\* parameters a header value carries at most
MaxParams == 2
\* times the BODYSTRUCTURE of one parsed message is built and serialised
MaxRuns == 2

\* strings.ToLower on the parameter keys of the inputs
KeyToLower(key) ==
    CASE key = "CHARSET" -> "charset"
      [] key = "FORMAT" -> "format"
      [] key = "FILENAME" -> "filename"
      [] OTHER -> key

\* strings.ToUpper on the keys and media types of the inputs
KeyToUpper(key) ==
    CASE key = "charset" -> "CHARSET"
      [] key = "format" -> "FORMAT"
      [] key = "name" -> "NAME"
      [] key = "filename" -> "FILENAME"
      [] key = "size" -> "SIZE"
      [] key = "text" -> "TEXT"
      [] key = "plain" -> "PLAIN"
      [] key = "application" -> "APPLICATION"
      [] key = "pdf" -> "PDF"
      [] key = "attachment" -> "ATTACHMENT"
      [] key = "7bit" -> "7BIT"
      [] OTHER -> key

\* a Go map with no entry
EmptyMap == [k \in {} |-> ""]

\* m[key] = value on a Go map
MapPut(m, key, value) ==
    [k \in DOMAIN m \cup {key} |-> IF k = key THEN value ELSE m[k]]

RECURSIVE ParamsOf(_, _)
\* the loop of parseValueParams over parts[1:]: later keys overwrite
ParamsOf(parts, m) ==
    IF parts = << >> THEN m
    ELSE ParamsOf(Tail(parts), MapPut(m, KeyToLower(Head(parts).key), Head(parts).value))

parseValueParams(headerValue) ==
    LET first == Head(headerValue)
        Params == ParamsOf(Tail(headerValue), EmptyMap)
    IN  [Value |-> first.value, Type |-> first.type, Subtype |-> first.subtype,
         Params |-> Params, HasParams |-> DOMAIN Params # {}]

\* the orders in which a range loop may visit the keys of a Go map: the
\* language leaves the order unspecified and the runtime varies it
RangeOrders(m) ==
    {order \in [1..Cardinality(DOMAIN m) -> DOMAIN m] :
        \A i, j \in DOMAIN order : order[i] = order[j] => i = j}

\* values of the structure: nil, a string, an int, a list of values
Nil == [t |-> "nil"]
StrVal(v) == [t |-> "string", s |-> v]
IntVal(n) == [t |-> "int", n |-> n]
ListVal(items) == [t |-> "list", items |-> items]

RECURSIVE ParamPairs(_, _, _)
\* params = append(params, keyName, value) for the keys in the order visited
ParamPairs(m, order, upper) ==
    IF order = << >> THEN << >>
    ELSE << StrVal(IF upper THEN KeyToUpper(Head(order)) ELSE Head(order)),
            StrVal(m[Head(order)]) >>
         \o ParamPairs(m, Tail(order), upper)

getContentType(node) ==
    IF "content-type" \in DOMAIN node.ParsedHeader
    THEN node.ParsedHeader["content-type"]
    ELSE [Value |-> "text/plain", Type |-> "text", Subtype |-> "plain",
          Params |-> EmptyMap, HasParams |-> FALSE]

getBasicFields(node, options, order) ==
    LET contentType == getContentType(node)
        up(v) == IF options.UpperCaseKeys THEN KeyToUpper(v) ELSE v
        paramList == IF contentType.HasParams /\ DOMAIN contentType.Params # {}
                     THEN ListVal(ParamPairs(contentType.Params, order,
                                          options.UpperCaseKeys))
                     ELSE Nil
    IN  << StrVal(up(contentType.Type)), StrVal(up(contentType.Subtype)), paramList,
           Nil, Nil, StrVal(up("7bit")), IntVal(node.Size) >>

getExtensionFields(node, options, order) ==
    LET disposition ==
            IF "content-disposition" \in DOMAIN node.ParsedHeader
            THEN LET dispParams == node.ParsedHeader["content-disposition"]
                     dispValue == IF options.UpperCaseKeys
                                  THEN KeyToUpper(dispParams.Value)
                                  ELSE dispParams.Value
                     dispParamList ==
                         IF dispParams.HasParams /\ DOMAIN dispParams.Params # {}
                         THEN ListVal(ParamPairs(dispParams.Params, order,
                                              options.UpperCaseKeys))
                         ELSE Nil
                 IN  ListVal(<< StrVal(dispValue), dispParamList >>)
            ELSE Nil
    IN  << Nil, disposition, Nil, Nil >>

processTextNode(node, options, ctOrder, dispOrder) ==
    getBasicFields(node, options, ctOrder) \o << IntVal(node.LineCount) >>
        \o getExtensionFields(node, options, dispOrder)

processAttachmentNode(node, options, ctOrder, dispOrder) ==
    getBasicFields(node, options, ctOrder)
        \o getExtensionFields(node, options, dispOrder)

createBodyStructure(node, options, ctOrder, dispOrder) ==
    IF getContentType(node).Type = "text"
    THEN ListVal(processTextNode(node, options, ctOrder, dispOrder))
    ELSE ListVal(processAttachmentNode(node, options, ctOrder, dispOrder))

\* strconv.Itoa on the sizes of the inputs
Itoa(n) == << "0", "1", "2", "3", "4", "5", "6", "7", "8", "9" >>[n + 1]

RECURSIVE serializeValue(_)
RECURSIVE serializeItems(_)
\* strings.Join(parts, " ") over the serialised items
serializeItems(items) ==
    IF items = << >> THEN << >>
    ELSE IF Len(items) = 1 THEN serializeValue(items[1])
    ELSE serializeValue(Head(items)) \o << " " >> \o serializeItems(Tail(items))

\* the string serializeValue returns, as the sequence of its pieces
serializeValue(value) ==
    CASE value.t = "nil" -> << "NIL" >>
      [] value.t = "string" -> << "\"", value.s, "\"" >>
      [] value.t = "int" -> << Itoa(value.n) >>
      [] value.t = "list" ->
            IF value.items = << >> THEN << "NIL" >>
            ELSE << "(" >> \o serializeItems(value.items) \o << ")" >>

SerializeBodyStructure(structure) == serializeValue(structure)

\* the inputs: Content-Type and Content-Disposition values of one part
MediaTypes ==
    { [value |-> "text/plain", type |-> "text", subtype |-> "plain"],
      [value |-> "application/pdf", type |-> "application", subtype |-> "pdf"] }
TypeParams ==
    { [key |-> "charset", value |-> "utf-8"],
      [key |-> "FORMAT", value |-> "flowed"],
      [key |-> "charset", value |-> "us-ascii"] }
DispositionParams ==
    { [key |-> "filename", value |-> "a.pdf"],
      [key |-> "size", value |-> "9"] }

\* the values with at most MaxParams parameters drawn from pool
ValuesOver(first, pool) ==
    UNION {{<< f >> \o ps : f \in first, ps \in [1..n -> pool]} : n \in 0..MaxParams}

ContentTypes == ValuesOver(MediaTypes, TypeParams)
Dispositions ==
    ValuesOver({[value |-> "attachment", type |-> "attachment", subtype |-> ""]},
               DispositionParams)

\* ParseMIME on a message of one part: the node of the part
ParseMIME(ct, disp, withDisp, upper) ==
    /\ indexer.pc = "unused"
    /\ indexer' =
         [pc |-> "parsed",
          header |-> [type |-> ct, disposition |-> IF withDisp THEN disp ELSE << >>],
          node |-> [ParsedHeader |->
                        IF withDisp
                        THEN [h \in {"content-type", "content-disposition"} |->
                                 IF h = "content-type" THEN parseValueParams(ct)
                                 ELSE parseValueParams(disp)]
                        ELSE [h \in {"content-type"} |-> parseValueParams(ct)],
                    Size |-> 5, LineCount |-> 1],
          options |-> [UpperCaseKeys |-> upper],
          runs |-> << >>]
    /\ UNCHANGED <<storeVars, faults, lmtp, imap, server>>

\* the keys the range loops of one build visit
DispositionMap(node) ==
    IF "content-disposition" \in DOMAIN node.ParsedHeader
    THEN node.ParsedHeader["content-disposition"].Params
    ELSE EmptyMap

\* CreateBodyStructure and SerializeBodyStructure on the parsed message
Build ==
    /\ indexer.pc = "parsed"
    /\ Len(indexer.runs) < MaxRuns
    /\ \E ctOrder \in RangeOrders(getContentType(indexer.node).Params),
          dispOrder \in RangeOrders(DispositionMap(indexer.node)) :
          indexer' = [indexer EXCEPT !.runs = Append(@,
              SerializeBodyStructure(
                  createBodyStructure(indexer.node, indexer.options,
                                      ctOrder, dispOrder)))]
    /\ UNCHANGED <<storeVars, faults, lmtp, imap, server>>

\* SpecBodyStructure: one part of every input parsed, its BODYSTRUCTURE
\* built and serialised repeatedly
NextBodyStructure ==
    \/ \E ct \in ContentTypes, disp \in Dispositions, withDisp, upper \in BOOLEAN :
          ParseMIME(ct, disp, withDisp, upper)
    \/ Build

SpecBodyStructure == Init /\ [][NextBodyStructure]_vars

RECURSIVE HeaderOrder(_, _)
\* the keys of a header value in the order of their first appearance
HeaderOrder(parts, seen) ==
    IF parts = << >> THEN << >>
    ELSE LET key == KeyToLower(Head(parts).key)
         IN  IF key \in seen THEN HeaderOrder(Tail(parts), seen)
             ELSE << key >> \o HeaderOrder(Tail(parts), seen \cup {key})

\* the output whose parameters stand in the order of the parsed header
InHeaderOrder ==
    SerializeBodyStructure(
        createBodyStructure(indexer.node, indexer.options,
            HeaderOrder(Tail(indexer.header.type), {}),
            IF indexer.header.disposition = << >> THEN << >>
            ELSE HeaderOrder(Tail(indexer.header.disposition), {})))

\* C31: every build of the BODYSTRUCTURE of one parsed message serialises to
\* the same output, the one whose content-type and disposition parameters
\* stand in the order in which they appear in the parsed header
C31_BodyStructureDeterministic ==
    indexer.pc = "parsed" =>
        \A i \in DOMAIN indexer.runs : indexer.runs[i] = InHeaderOrder

(***************************************************************************)
(* The content walk of the indexer (package imap_core/indexer).  A body is *)
(* the sequence of the pieces of its text; the headers of a node are the   *)
(* values its accessors (getContentType, getDisposition, getFileName,      *)
(* getContentID) return.  storeAttachment succeeds.                        *)
(***************************************************************************)
\* child nodes of a multipart node
MaxChildren == 2

\* 300*1024, the size above which inline text is stored as an attachment
LargeText == 307200

\* primitive.NewObjectID: the ids of the id source, in the order handed out
ObjectIDs == << "id1", "id2", "id3", "id4", "id5", "id6" >>

\* time.Now().UnixNano() at the naming of an attachment without a file name
Clocks == {"t1", "t2"}

MessageID == "m1"

HtmlTags == {"<b>", "</b>"}

RECURSIVE htmlToText(_)
\* htmlToText: tags removed, entities decoded
htmlToText(html) ==
    IF html = << >> THEN << >>
    ELSE LET piece == Head(html)
         IN  (IF piece \in HtmlTags THEN << >>
              ELSE IF piece = "&amp;" THEN << "&" >>
              ELSE << piece >>) \o htmlToText(Tail(html))

RECURSIVE escapeHTML(_)
\* the strings.ReplaceAll calls of textToHTML
escapeHTML(text) ==
    IF text = << >> THEN << >>
    ELSE LET piece == Head(text)
         IN  (IF piece = "&" THEN << "&amp;" >>
              ELSE IF piece = "<b>" THEN << "&lt;", "b", "&gt;" >>
              ELSE IF piece = "</b>" THEN << "&lt;", "/b", "&gt;" >>
              ELSE << piece >>) \o escapeHTML(Tail(text))

textToHTML(text) == << "<pre>" >> \o escapeHTML(text) \o << "</pre>" >>

\* strings.TrimPrefix(match, "cid:") on the links of the inputs
CidOf(piece) ==
    CASE piece = "cid:img1" -> "img1"
      [] piece = "cid:doc1" -> "doc1"
      [] OTHER -> ""

RECURSIVE updateCIDLinks(_, _, _)
\* updateCIDLinks: a cid: link of a stored part becomes an attachment link
updateCIDLinks(content, messageID, cidMap) ==
    IF content = << >> THEN << >>
    ELSE LET piece == Head(content)
         IN  (IF CidOf(piece) # "" /\ CidOf(piece) \in DOMAIN cidMap
              THEN << "attachment:", messageID, "/", cidMap[CidOf(piece)].ID >>
              ELSE << piece >>) \o updateCIDLinks(Tail(content), messageID, cidMap)

\* the accumulators ProcessContent hands to the walk
NewWalk(ids) ==
    [htmlContent |-> << >>, textContent |-> << >>, attachments |-> << >>,
     cidMap |-> EmptyMap, ids |-> ids, node |-> << >>]

RECURSIVE walkMimeTree(_, _, _, _, _)
RECURSIVE walkChildNodes(_, _, _, _, _, _)
\* the loop of walkMimeTree over node.ChildNodes; done holds the children
\* as the walk leaves them
walkChildNodes(children, done, alternative, related, now, w) ==
    IF children = << >> THEN [w EXCEPT !.node = done]
    ELSE LET w1 == walkMimeTree(Head(children), alternative, related, now, w)
         IN  walkChildNodes(Tail(children), Append(done, w1.node),
                            alternative, related, now, w1)

\* walkMimeTree on one node; the result carries the node as the walk leaves it
walkMimeTree(node, alternative0, related0, now, w) ==
    LET alternative == alternative0 \/ (node.Type = "multipart" /\ node.Subtype = "alternative")
        related == related0 \/ (node.Type = "multipart" /\ node.Subtype = "related")
        isInlineText == /\ node.Type = "text"
                        /\ node.Subtype \in {"plain", "html"}
                        /\ node.Disposition \in {"", "inline"}
        content == node.Body
        w1 == IF isInlineText /\ Len(node.Body) > 0
              THEN IF node.Subtype = "html"
                   THEN [w EXCEPT !.htmlContent = Append(@, content),
                                  !.textContent = IF alternative THEN @
                                                  ELSE Append(@, htmlToText(content))]
                   ELSE [w EXCEPT !.textContent = Append(@, content),
                                  !.htmlContent = IF alternative THEN @
                                                  ELSE Append(@, textToHTML(content))]
              ELSE w
        isMultipart == node.Type = "multipart"
        stores == /\ ~isMultipart
                  /\ Len(node.Body) > 0
                  /\ (~isInlineText \/ node.Size > LargeText)
        attachmentInfo ==
            [ID |-> ObjectIDs[w1.ids],
             FileName |-> IF node.FileName = "" THEN "hash-" \o now \o ".bin"
                          ELSE node.FileName,
             ContentType |-> node.Value,
             Disposition |-> node.Disposition,
             TransferEncoding |-> "7bit",
             Related |-> related,
             SizeKB |-> (node.Size + 1023) \div 1024,
             ContentID |-> node.ContentID]
        w2 == IF stores
              THEN [w1 EXCEPT
                      !.ids = @ + 1,
                      !.cidMap = IF node.ContentID # ""
                                 THEN MapPut(@, node.ContentID, attachmentInfo)
                                 ELSE @,
                      !.attachments =
                          IF ~isInlineText
                             /\ ~(node.Value = "message/rfc822"
                                  /\ node.Disposition \in {"", "inline"})
                          THEN Append(@, attachmentInfo)
                          ELSE @]
              ELSE w1
        left == IF stores THEN [node EXCEPT !.Body = << >>] ELSE node
        w3 == walkChildNodes(node.ChildNodes, << >>, alternative, related, now, w2)
    IN  [w3 EXCEPT !.node = [left EXCEPT !.ChildNodes = w3.node]]

RECURSIVE JoinLines(_)
\* strings.Join(textContent, "\n")
JoinLines(texts) ==
    IF texts = << >> THEN << >>
    ELSE IF Len(texts) = 1 THEN texts[1]
    ELSE texts[1] \o << "\n" >> \o JoinLines(Tail(texts))

\* ProcessContent: the result and the tree as the walk leaves it
ProcessContentOf(messageID, mimeTree, now) ==
    LET w == walkMimeTree(mimeTree, FALSE, FALSE, now, NewWalk(1))
        rewrite(contents) ==
            [i \in DOMAIN contents |-> updateCIDLinks(contents[i], messageID, w.cidMap)]
    IN  [Attachments |-> w.attachments,
         HTML |-> rewrite(w.htmlContent),
         Text |-> JoinLines(rewrite(w.textContent)),
         tree |-> w.node]

\* the inputs: leaf parts and the trees of at most MaxChildren of them
Leaf(type, subtype, disposition, fileName, contentID, body, size) ==
    [Type |-> type, Subtype |-> subtype, Value |-> type \o "/" \o subtype,
     Disposition |-> disposition, FileName |-> fileName, ContentID |-> contentID,
     Body |-> body, Size |-> size, ChildNodes |-> << >>]

LeafNodes ==
    { Leaf("text", "plain", "", "", "", << "a", "&", "cid:img1" >>, 3),
      Leaf("text", "html", "inline", "", "", << "<b>", "cid:img1", "</b>" >>, 3),
      Leaf("text", "plain", "", "", "", << "long" >>, LargeText + 1),
      Leaf("image", "png", "inline", "", "img1", << "png" >>, 2048),
      Leaf("application", "pdf", "attachment", "a.pdf", "", << "pdf" >>, 1025) }

Multipart(subtype, children) ==
    [Type |-> "multipart", Subtype |-> subtype, Value |-> "multipart/" \o subtype,
     Disposition |-> "", FileName |-> "", ContentID |-> "",
     Body |-> << >>, Size |-> 0, ChildNodes |-> children]

MimeTrees ==
    LeafNodes \cup
    UNION {{Multipart(subtype, children) :
                subtype \in {"mixed", "alternative", "related"},
                children \in [1..n -> LeafNodes]} : n \in 1..MaxChildren}

\* ProcessContent on the tree of a parsed message
ProcessContent(mimeTree, now) ==
    /\ indexer.pc = "unused"
    /\ LET r == ProcessContentOf(MessageID, mimeTree, now)
       IN  indexer' = [pc |-> "walked", mimeTree |-> r.tree,
                       runs |-> << [Attachments |-> r.Attachments,
                                    HTML |-> r.HTML, Text |-> r.Text] >>]
    /\ UNCHANGED <<storeVars, faults, lmtp, imap, server>>

\* ProcessContent again, on the tree the last run left, with the same id source
ProcessContentAgain(now) ==
    /\ indexer.pc = "walked"
    /\ Len(indexer.runs) < MaxRuns
    /\ LET r == ProcessContentOf(MessageID, indexer.mimeTree, now)
       IN  indexer' = [indexer EXCEPT
                          !.mimeTree = r.tree,
                          !.runs = Append(@, [Attachments |-> r.Attachments,
                                              HTML |-> r.HTML, Text |-> r.Text])]
    /\ UNCHANGED <<storeVars, faults, lmtp, imap, server>>

\* SpecIndexer: the content walk run repeatedly on every input tree
NextIndexer ==
    \/ \E mimeTree \in MimeTrees, now \in Clocks : ProcessContent(mimeTree, now)
    \/ \E now \in Clocks : ProcessContentAgain(now)

SpecIndexer == Init /\ [][NextIndexer]_vars

\* the attachment metadata of a run, as a set
AttachmentSet(run) == {run.Attachments[i] : i \in DOMAIN run.Attachments}

\* C32: a run of the content walk on the tree left by the first run yields
\* the attachment metadata set, the text and the HTML bodies of the first run
C32_IndexerIdempotent ==
    indexer.pc = "walked" =>
        \A i \in DOMAIN indexer.runs :
            /\ AttachmentSet(indexer.runs[i]) = AttachmentSet(indexer.runs[1])
            /\ indexer.runs[i].Text = indexer.runs[1].Text
            /\ indexer.runs[i].HTML = indexer.runs[1].HTML

(***************************************************************************)
(* Tagged completions.                                                     *)
(***************************************************************************)
\* session s has read a command line and its handler has returned
CommandAnswered(s) ==
    /\ imap[s].pc \in {"idle", "closed"}
    /\ imap[s].cmd # "" \/ imap[s].out # << >>

\* the tagged completion responses among the lines written for a command
TaggedCompletions(out) ==
    {i \in DOMAIN out : out[i].tag = Tag /\ out[i].status \in {"OK", "NO", "BAD"}}

\* C33: for every command line a session has read, it has written exactly
\* one tagged completion response (OK, NO or BAD) with the tag of the command.
C33_OneTaggedCompletion ==
    \A s \in ImapIds :
        CommandAnswered(s) => Cardinality(TaggedCompletions(imap[s].out)) = 1

(***************************************************************************)
(* SpecExpungeRace: a session that expunges and a session that sets and    *)
(* clears \Deleted in the same mailbox, their store operations             *)
(* interleaved, and deliveries between their commands.                     *)
(***************************************************************************)
\* the STORE commands of the second session
FlaggerActions == {TxtAddFlagsSilent, TxtRemoveFlags}

\* the second session: LOGIN, SELECT and STORE
FlaggerStep(s, serial) ==
    \/ ImapTurn(serial) /\ EmptyLine(s)
    \/ ImapTurn(serial) /\ \E u \in LoginNames, p \in Passwords : Login(s, u, p, FALSE)
    \/ ImapTurn(serial) /\ Select(s, "INBOX", FALSE)
    \/ ImapTurn(serial) /\ \E action \in FlaggerActions, flagList \in StoreFlags :
                               Store(s, SeqAll, action, flagList, FALSE)
    \/ ImapTurn(serial) /\ StoreFetch(s, FALSE)

NextExpungeRace ==
    \/ PlainDelivery("l1", TRUE)
    \/ ExpungerStep("i1", TRUE)
    \/ FlaggerStep("i2", TRUE)

SpecExpungeRace == Init /\ [][NextExpungeRace]_vars

\* the UIDs announced by the untagged EXPUNGE lines of out, as the handler
\* writes them
Announced(out) == {k \in DOMAIN out : out[k].tag = "*" /\ out[k].text = "EXPUNGE"}

\* C34: the EXPUNGE lines of a completed EXPUNGE and the messages it removed
\* from the selected mailbox correspond one to one, whatever another
\* session does to the \Deleted flags of the mailbox meanwhile.
C34_ExpungeAnnouncesRemoved ==
    [][\A s \in ImapIds :
         ExpungeCompletes(s) =>
            LET removed == {m \in MsgsIn(imap[s].selectedBox) : m \notin DOMAIN messages'}
                out     == imap'[s].out
            IN  /\ Cardinality(Announced(out)) = Cardinality(removed)
                /\ {out[k].n : k \in Announced(out)} = {messages[m].uid : m \in removed}]_vars

(***************************************************************************)
(* SpecDeleteRace: a session that copies from INBOX into the mailbox Work  *)
(* and a session that creates and deletes Work, their store operations     *)
(* interleaved, and deliveries between their commands.                     *)
(***************************************************************************)
\* LOGIN, SELECT INBOX and COPY into Work
CopierStep(s, serial) ==
    \/ ImapTurn(serial) /\ EmptyLine(s)
    \/ ImapTurn(serial) /\ \E u \in LoginNames, p \in Passwords : Login(s, u, p, FALSE)
    \/ ImapTurn(serial) /\ Select(s, "INBOX", FALSE)
    \/ ImapTurn(serial) /\ Copy(s, SeqAll, "Work", FALSE)
    \/ ImapTurn(serial) /\ CopyFind(s, FALSE)
    \/ ImapTurn(serial) /\ CopyInsert(s, FALSE)
    \/ ImapTurn(serial) /\ CopyInc(s, FALSE)
    \/ ImapTurn(serial) /\ CopyEnd(s)

NextDeleteRace ==
    \/ PlainDelivery("l1", TRUE)
    \/ CopierStep("i1", TRUE)
    \/ RecreateStep("i2", TRUE)

SpecDeleteRace == Init /\ [][NextDeleteRace]_vars

\* message m refers to a mailbox that exists
InExistingMailbox(m) == messages[m].mailbox \in Mailboxes

\* C35: at all times every stored message refers to an existing mailbox,
\* and that mailbox belongs to the user the message belongs to; a DELETE of
\* a mailbox that runs while a COPY places messages into it leaves no
\* message that refers to the deleted mailbox.
C35_MessagesInExistingMailbox ==
    \A m \in DOMAIN messages :
        /\ InExistingMailbox(m)
        /\ mailboxes[messages[m].mailbox].user = messages[m].user

(***************************************************************************)
(* SpecExamine: deliveries and one session that opens INBOX with EXAMINE   *)
(* only and then sends the commands of the selected state.                 *)
(***************************************************************************)
ExamineStep(s, serial) ==
    \/ ImapTurn(serial) /\ EmptyLine(s)
    \/ ImapTurn(serial) /\ \E u \in LoginNames, p \in Passwords : Login(s, u, p, FALSE)
    \/ ImapTurn(serial) /\ Examine(s, "INBOX", FALSE)
    \/ ImapTurn(serial) /\ Close(s, FALSE)
    \/ ImapTurn(serial) /\ \E flagList \in StoreFlags :
                               Store(s, SeqAll, TxtAddFlags, flagList, FALSE)
    \/ ImapTurn(serial) /\ StoreFetch(s, FALSE)
    \/ ImapTurn(serial) /\ Expunge(s, FALSE)
    \/ ImapTurn(serial) /\ ExpungeDelete(s, FALSE)
    \/ ImapTurn(serial) /\ Move(s, SeqAll, "Trash", FALSE)
    \/ ImapTurn(serial) /\ MoveFind(s, FALSE)
    \/ ImapTurn(serial) /\ MoveUpdate(s, FALSE)
    \/ ImapTurn(serial) /\ MoveInc(s, FALSE)
    \/ ImapTurn(serial) /\ MoveEnd(s)
    \/ ImapTurn(serial) /\ Fetch(s, SeqAll, <<TxtBODYTEXT>>, FALSE)
    \/ ImapTurn(serial) /\ FetchNext(s, FALSE)
    \/ ImapTurn(serial) /\ FetchEnd(s)

NextExamine ==
    \/ PlainDelivery("l1", TRUE)
    \/ ExamineStep("i1", TRUE)

SpecExamine == Init /\ [][NextExamine]_vars

\* message m is in the store after the step as before it: same mailbox,
\* same flags
Untouched(m) ==
    /\ m \in DOMAIN messages'
    /\ messages'[m].mailbox = messages[m].mailbox
    /\ FlagsOf(messages'[m]) = FlagsOf(messages[m])

\* C36: while a session has a mailbox selected that it opened with EXAMINE,
\* no step changes a flag of a message of that mailbox or removes one from
\* it.  (In SpecExamine every selection is made by EXAMINE and the only
\* other writer is the delivery, which adds messages.)
C36_ExamineReadOnly ==
    [][\A s \in ImapIds :
          imap[s].state = "Selected" =>
              \A m \in MsgsIn(imap[s].selectedBox) : Untouched(m)]_vars

(***************************************************************************)
(* SpecAuth: deliveries to both users and one connection whose client logs *)
(* in with right and wrong names and passwords, before and after sending   *)
(* the commands that read and change messages.                             *)
(***************************************************************************)
AuthRcpts == {[local |-> "a1", tag |-> "", upper |-> FALSE],
              [local |-> "a2", tag |-> "", upper |-> FALSE]}
AuthNames == {"u1", "u2", "nobody"}
AuthPasswords == {"pw", "bad"}
\* a message no filter matches: it goes to INBOX
AuthRaws == {raw \in RawMessages : raw.headers = {}}

\* deliveries of one message to u1, to u2 or to both; the INBOX is always
\* found, so the fallback lookup is never taken
AuthDelivery(l, serial) ==
    \/ LmtpTurn(serial) /\ Mail(l)
    \/ LmtpTurn(serial) /\ NewSession(l)
    \/ LmtpTurn(serial) /\ \E to \in AuthRcpts : Rcpt(l, to, FALSE)
    \/ LmtpTurn(serial) /\ \E raw \in AuthRaws : DataStart(l, raw, FALSE)
    \/ LmtpTurn(serial) /\ PMFind(l, FALSE)
    \/ LmtpTurn(serial) /\ PMInc(l, FALSE)
    \/ LmtpTurn(serial) /\ PMInsert(l, FALSE)
    \/ LmtpTurn(serial) /\ PMQuota(l, FALSE)
    \/ LmtpTurn(serial) /\ DataFinish(l)

AuthStep(s, serial) ==
    \/ ImapTurn(serial) /\ EmptyLine(s)
    \/ ImapTurn(serial) /\ \E u \in AuthNames, p \in AuthPasswords, dbErr \in MayFail :
                               Login(s, u, p, dbErr)
    \/ ImapTurn(serial) /\ Select(s, "INBOX", FALSE)
    \/ ImapTurn(serial) /\ Fetch(s, SeqAll, <<TxtBODYTEXT>>, FALSE)
    \/ ImapTurn(serial) /\ FetchNext(s, FALSE)
    \/ ImapTurn(serial) /\ FetchEnd(s)
    \/ ImapTurn(serial) /\ \E flagList \in StoreFlags :
                               Store(s, SeqAll, TxtAddFlagsSilent, flagList, FALSE)
    \/ ImapTurn(serial) /\ Expunge(s, FALSE)
    \/ ImapTurn(serial) /\ ExpungeDelete(s, FALSE)

NextAuth ==
    \/ AuthDelivery("l1", TRUE)
    \/ AuthStep("i1", TRUE)

SpecAuth == Init /\ [][NextAuth]_vars

\* what session s holds is its user's: no user and no mailbox before a
\* LOGIN succeeded, and afterwards a selected mailbox and fetched documents
\* of the user it authenticated as
HoldsOwnData(s) ==
    LET sess == imap[s]
    IN  /\ sess.state = "NotAuthenticated" =>
              ~sess.authenticated /\ sess.user = "" /\ sess.selectedBox = 0
        /\ sess.state \in {"Authenticated", "Selected"} => sess.authenticated
        /\ sess.authenticated => sess.user \in DOMAIN users
        /\ sess.selectedBox # 0 =>
              sess.authenticated /\ mailboxes[sess.selectedBox].user = sess.user
        /\ \A k \in DOMAIN sess.cursor :
              /\ sess.authenticated
              /\ mailboxes[sess.cursor[k].doc.mailbox].user = sess.user

\* the step in which session s becomes authenticated is a LOGIN with the
\* name of a user and that user's password, and attaches that user
LoginVerified(s) ==
    (~imap[s].authenticated /\ imap'[s].authenticated) =>
        /\ imap'[s].cmd = "LOGIN"
        /\ \E u \in DOMAIN users :
              /\ users[u].username = imap'[s].args.username
              /\ users[u].password = imap'[s].args.password
              /\ imap'[s].user = u

\* a LOGIN of an unauthenticated session that is not answered OK leaves it
\* in NotAuthenticated with no user
LoginFailed(s) ==
    (/\ imap[s].pc = "idle"
     /\ ~imap[s].authenticated
     /\ imap'[s] # imap[s]
     /\ imap'[s].cmd = "LOGIN"
     /\ imap'[s].out[Len(imap'[s].out)].status # "OK") =>
        /\ imap'[s].state = "NotAuthenticated"
        /\ ~imap'[s].authenticated
        /\ imap'[s].user = ""

\* a step of session s changes or removes only messages in mailboxes of the
\* user of s, adds messages only to such mailboxes, and changes only such
\* mailboxes
WritesOwnData(s) ==
    imap'[s] # imap[s] =>
        /\ \A m \in DOMAIN messages :
              ~Untouched(m) =>
                  /\ imap[s].authenticated
                  /\ mailboxes[messages[m].mailbox].user = imap[s].user
        /\ \A m \in DOMAIN messages' \ DOMAIN messages :
              /\ imap[s].authenticated
              /\ mailboxes[messages'[m].mailbox].user = imap[s].user
        /\ \A b \in DOMAIN mailboxes :
              mailboxes'[b] # mailboxes[b] =>
                  imap[s].authenticated /\ mailboxes[b].user = imap[s].user

\* C37: a session reads and changes mailbox and message data only after a
\* LOGIN whose username and password both verified, and then only data of
\* the user it authenticated as; a failed LOGIN leaves the session in
\* NotAuthenticated with no user attached.
C37_OnlyOwnDataAfterLogin ==
    [][\A s \in ImapIds :
          /\ HoldsOwnData(s)'
          /\ LoginVerified(s)
          /\ LoginFailed(s)
          /\ WritesOwnData(s)]_vars

\* u1, authenticated, has marked a message of its INBOX deleted while u2's
\* INBOX holds a message that is untouched; the session is fetching
C37_Witness ==
    /\ imap["i1"].user = "u1"
    /\ imap["i1"].state = "Selected"
    /\ imap["i1"].cursor # << >>
    /\ \E m \in MsgsIn(imap["i1"].selectedBox) : messages[m].deleted
    /\ \E m \in DOMAIN messages :
          /\ mailboxes[messages[m].mailbox].user = "u2"
          /\ ~messages[m].deleted /\ ~messages[m].seen

(***************************************************************************)
(* The return of Shutdown.                                                 *)
(***************************************************************************)
\* every connection handler has returned
AllEnded == \A s \in ImapIds : imap[s].pc = "closed"

\* C38: when the listener is closed and every session has ended before the
\* deadline of the context, Shutdown returns at once, and what it returns
\* when no handler was running at the deadline is nil.
C38_ShutdownReturnsNil ==
    /\ (/\ server.phase = "waiting"
        /\ server.listener = "closed"
        /\ AllEnded
        /\ ~server.expired) => ENABLED ShutdownReturn
    /\ (server.phase = "returned" /\ server.late = {}) => server.result = "nil"

(***************************************************************************)
(* SpecAccept: connections accepted by Start and registered by their       *)
(* handlers while Shutdown runs.  Start hands an accepted connection to a  *)
(* new goroutine; the goroutine registers the session when it is           *)
(* scheduled.                                                              *)
(***************************************************************************)
\* Start: Accept returns a connection and go s.handleConnection(conn)
Accept(s) ==
    /\ imap[s].pc = "closed"
    /\ server.listener = "open"
    /\ imap' = [imap EXCEPT ![s] = [NewImapSession EXCEPT !.pc = "accepted"]]
    /\ UNCHANGED <<storeVars, faults, lmtp, server, indexer>>

\* handleConnection: s.sessions[sessionID] = session, and the greeting
Register(s) ==
    /\ imap[s].pc = "accepted"
    /\ imap' = [imap EXCEPT ![s] = NewImapSession]
    /\ UNCHANGED <<storeVars, faults, lmtp, server, indexer>>

\* a connection: accepted, registered, served, ended
AcceptStep(s, serial) ==
    \/ Accept(s)
    \/ Register(s)
    \/ Live(s) /\ ImapTurn(serial) /\ EmptyLine(s)
    \/ Live(s) /\ ImapTurn(serial) /\ \E u \in LoginNames, p \in Passwords :
                                          Login(s, u, p, FALSE)
    \/ Live(s) /\ ImapTurn(serial) /\ Noop(s)
    \/ Live(s) /\ ImapTurn(serial) /\ Logout(s)
    \/ Cut(s, FALSE)

NextAccept ==
    \/ AcceptStep("i1", TRUE)
    \/ AcceptStep("i2", TRUE)
    \/ ShutdownStep

SpecAccept == Init /\ [][NextAccept]_vars

\* Shutdown has closed the listener and gone through s.sessions
Swept == server.phase \in {"waiting", "returned"}

\* C39: once Shutdown has closed the listener and swept the registry, every
\* connection whose handler is still running is in the registry and its
\* transport has been closed by Shutdown.
C39_NoConnectionServedAfterSweep ==
    Swept => \A s \in ImapIds :
                 imap[s].pc # "closed" => s \in Sessions /\ ~Live(s)

(***************************************************************************)
(* The storage counter of a user.                                          *)
(***************************************************************************)
RECURSIVE SumOfSizes(_)
\* the total size of the messages S
SumOfSizes(S) ==
    IF S = {} THEN 0
    ELSE LET m == CHOOSE x \in S : TRUE
         IN  messages[m].size + SumOfSizes(S \ {m})

\* the messages stored in the mailboxes of user u
StoredFor(u) == {m \in DOMAIN messages : mailboxes[messages[m].mailbox].user = u}

\* no store call has failed and no handler is between two store calls
NothingFailedOrPending ==
    /\ faults = 0
    /\ LmtpQuiet
    /\ \A s \in ImapIds : imap[s].pc = "idle"

\* C40: when no store write has failed, the storageUsed of every user is
\* the total size of the messages stored for that user.
C40_StorageUsedIsTotalSize ==
    NothingFailedOrPending =>
        \A u \in UserIds : users[u].storageUsed = SumOfSizes(StoredFor(u))

====
